---------------------------- MODULE Spec2Model ----------------------------
(***************************************************************************)
(* Model of the analytics core of ai-is-king:                              *)
(*   - DataPipeline (src/src/lib/dataPipeline.ts): the process-wide metric *)
(*     registry, recordMetric and the asynchronous buildMetrics runs;      *)
(*   - DomainAnalyzer (src/src/lib/database.ts): detectDomain;             *)
(*   - AnalyticsService (src/src/lib/analyticsService.ts): insight ranking;*)
(*   - CorrelationAnalyzer (src/src/lib/correlationAnalyzer.ts);           *)
(*   - NLPProcessor (src/unnamed/part_017): rule-based text extraction.    *)
(*                                                                         *)
(* Numbers.  JavaScript numbers are IEEE doubles.  The model uses integers *)
(* and exact rational comparisons: an average is kept as a reduced         *)
(* fraction <<numerator, denominator>>, a comparison such as               *)
(* secondAvg > firstAvg * 1.1 is cross-multiplied, and a Pearson           *)
(* coefficient is kept in hundredths, truncated toward zero.  On the small *)
(* integer inputs of the model every sum and product of the code is exact  *)
(* in double arithmetic.                                                   *)
(*                                                                         *)
(* Strings are TLA+ strings; Len, \o and SubSeq act on them as on          *)
(* sequences of characters, so substring tests (String.includes) and the   *)
(* regular expressions of the code are computed character by character.    *)
(***************************************************************************)
EXTENDS Integers, Sequences, FiniteSets, TLC

VARIABLES
  registry,     \* DataPipeline.metricRegistry: key |-> MetricAggregation
  writer,       \* history variable: key |-> the run that pushed each history entry
  store,        \* the dataset store read through databaseService
  pc,           \* run |-> position of that buildMetrics call
  allData,      \* run |-> the datasets returned by getAllData
  idx,          \* run |-> index of the next dataset of the for-loop
  domainMetrics,\* run |-> the DomainMetrics[] built by buildDomainMetrics
  crossDomain,  \* run |-> the CrossDomainAnalysis of the run
  result,       \* run |-> the value buildMetrics returned
  args,         \* the arguments of a call of one of the analysis functions
  returned      \* what that call returned

pipelineVars == <<registry, writer, store, pc, allData, idx, domainMetrics, crossDomain, result>>

vars == <<pipelineVars, args, returned>>

-----------------------------------------------------------------------------
(* Bounds *)

MaxCalls == 4          \* recordMetric calls in the direct-call specification
MaxRuns == 2           \* buildMetrics calls in one process
MaxFiles == 2          \* files in the dataset store

-----------------------------------------------------------------------------
(* Generic helpers *)

Min2(a, b) == IF a <= b THEN a ELSE b
Max2(a, b) == IF a >= b THEN a ELSE b
Abs(a) == IF a < 0 THEN -a ELSE a

RECURSIVE Gcd(_, _)
Gcd(a, b) == IF b = 0 THEN a ELSE Gcd(b, a % b)

\* a / b for b > 0, as a reduced fraction
Divide(a, b) ==
  LET g == Gcd(Abs(a), b) IN <<a \div g, b \div g>>

\* String.prototype.includes
Includes(s, sub) ==
  \E i \in 1..(Len(s) - Len(sub) + 1) : SubSeq(s, i, i + Len(sub) - 1) = sub

-----------------------------------------------------------------------------
(* DataPipeline: the metric registry (dataPipeline.ts) *)

Infinity == 1000000      \* stands for JavaScript's Infinity: above every model value

\* `${domain}:${metric}`
MetricKey(domain, metric) == domain \o ":" \o metric

\* the aggregation recordMetric creates for a key the registry does not hold
NewAggregation(metric, timestamp) ==
  [ metric |-> metric, total |-> 0, average |-> <<0, 1>>, count |-> 0,
    min |-> Infinity, max |-> -Infinity, trend |-> "stable",
    lastUpdated |-> timestamp, history |-> << >> ]

\* the trend of the three most recent history points
TrendOf(recent) ==
  LET firstSum  == recent[1].value + recent[2].value     \* 2 * firstAvg
      secondSum == recent[2].value + recent[3].value     \* 2 * secondAvg
  IN  IF 10 * secondSum > 11 * firstSum THEN "increasing"      \* secondAvg > firstAvg * 1.1
      ELSE IF 10 * secondSum < 9 * firstSum THEN "decreasing"  \* secondAvg < firstAvg * 0.9
      ELSE "stable"

\* UpdateAggregation with the average taken before the count is incremented
UpdateAggregationStaleCount(agg, value, timestamp, source) ==
  LET total   == agg.total + value
      count   == agg.count + 1
      history == Append(agg.history, [date |-> timestamp, value |-> value, source |-> source])
      n       == Len(history)
  IN  [ metric |-> agg.metric,
        total |-> total,
        average |-> Divide(total, Max2(agg.count, 1)),
        count |-> count,
        min |-> Min2(agg.min, value),
        max |-> Max2(agg.max, value),
        trend |-> IF n >= 3 THEN TrendOf(SubSeq(history, n - 2, n)) ELSE agg.trend,
        lastUpdated |-> timestamp,
        history |-> history ]

\* UpdateAggregation with the trend analysed from the second history point on
UpdateAggregationEarlyTrend(agg, value, timestamp, source) ==
  LET total   == agg.total + value
      count   == agg.count + 1
      history == Append(agg.history, [date |-> timestamp, value |-> value, source |-> source])
      n       == Len(history)
  IN  [ metric |-> agg.metric,
        total |-> total,
        average |-> Divide(total, count),
        count |-> count,
        min |-> Min2(agg.min, value),
        max |-> Max2(agg.max, value),
        trend |-> IF n >= 2 THEN TrendOf(<<history[n - 1]>> \o SubSeq(history, n - 1, n))
                  ELSE agg.trend,
        lastUpdated |-> timestamp,
        history |-> history ]

\* the aggregation after one more value
UpdateAggregation(agg, value, timestamp, source) ==
  LET total   == agg.total + value
      count   == agg.count + 1
      history == Append(agg.history, [date |-> timestamp, value |-> value, source |-> source])
      n       == Len(history)
  IN  [ metric |-> agg.metric,
        total |-> total,
        average |-> Divide(total, count),
        count |-> count,
        min |-> Min2(agg.min, value),
        max |-> Max2(agg.max, value),
        trend |-> IF n >= 3 THEN TrendOf(SubSeq(history, n - 2, n)) ELSE agg.trend,
        lastUpdated |-> timestamp,
        history |-> history ]

\* RecordMetric into a registry that keeps the recorded key alone
RecordMetricAlone(reg, metric, value, domain, timestamp, source) ==
  LET key == MetricKey(domain, metric)
      agg == IF key \in DOMAIN reg THEN reg[key] ELSE NewAggregation(metric, timestamp)
      new == UpdateAggregation(agg, value, timestamp, source)
  IN  [k \in {key} |-> new]

\* recordMetric: the registry after the call
RecordMetric(reg, metric, value, domain, timestamp, source) ==
  LET key == MetricKey(domain, metric)
      agg == IF key \in DOMAIN reg THEN reg[key] ELSE NewAggregation(metric, timestamp)
      new == UpdateAggregation(agg, value, timestamp, source)
  IN  [k \in DOMAIN reg \cup {key} |-> IF k = key THEN new ELSE reg[k]]

\* the history variable after the same call made by run r
RecordWriter(wr, metric, domain, r) ==
  LET key == MetricKey(domain, metric)
      old == IF key \in DOMAIN wr THEN wr[key] ELSE << >>
  IN  [k \in DOMAIN wr \cup {key} |-> IF k = key THEN Append(old, r) ELSE wr[k]]

EmptyRegistry == [k \in {} |-> 0]

RECURSIVE SumValues(_)
SumValues(h) == IF h = << >> THEN 0 ELSE h[1].value + SumValues(Tail(h))

RECURSIVE SumOver(_, _)
SumOver(f, S) ==
  IF S = {} THEN 0 ELSE LET x == CHOOSE y \in S : TRUE IN f[x] + SumOver(f, S \ {x})

\* number of history entries of the whole registry
TotalCount(reg) == SumOver([k \in DOMAIN reg |-> reg[k].count], DOMAIN reg)

-----------------------------------------------------------------------------
(* JavaScript values held in rows *)

Num(v) == [t |-> "number", v |-> v]
Str(s) == [t |-> "string", s |-> s]
Undefined == [t |-> "undefined"]

\* row[col]
Field(row, col) == IF col \in DOMAIN row THEN row[col] ELSE Undefined

\* the value used as a condition (if (row[col]) ...)
Truthy(cell) ==
  CASE cell.t = "number" -> cell.v # 0
    [] cell.t = "string" -> cell.s # ""
    [] OTHER -> FALSE

Digits == <<"0", "1", "2", "3", "4", "5", "6", "7", "8", "9">>
IsDigit(c) == \E d \in 1..10 : Digits[d] = c
DigitValue(c) == (CHOOSE d \in 1..10 : Digits[d] = c) - 1

\* length of the run of digits of s that starts at position i
RECURSIVE DigitRun(_, _)
DigitRun(s, i) ==
  IF i <= Len(s) /\ IsDigit(SubSeq(s, i, i)) THEN 1 + DigitRun(s, i + 1) ELSE 0

\* the number written by the digits s[i..j]
RECURSIVE DigitsValue(_, _, _)
DigitsValue(s, i, j) ==
  IF j < i THEN 0 ELSE 10 * DigitsValue(s, i, j - 1) + DigitValue(SubSeq(s, j, j))

NaN == [nan |-> TRUE, v |-> 0]
Number(v) == [nan |-> FALSE, v |-> v]

\* parseFloat on a string without a decimal point: optional sign, then digits
ParseFloatString(s) ==
  LET neg   == Len(s) >= 1 /\ SubSeq(s, 1, 1) = "-"
      start == IF neg THEN 2 ELSE 1
      n     == DigitRun(s, start)
  IN  IF n = 0 THEN NaN
      ELSE Number((IF neg THEN -1 ELSE 1) * DigitsValue(s, start, start + n - 1))

\* parseFloat(cell)
ParseFloat(cell) ==
  CASE cell.t = "number" -> Number(cell.v)
    [] cell.t = "string" -> ParseFloatString(cell.s)
    [] OTHER -> NaN

UpperCase == "ABCDEFGHIJKLMNOPQRSTUVWXYZ"
LowerCase == "abcdefghijklmnopqrstuvwxyz"

LowerChar(c) ==
  IF \E i \in 1..26 : SubSeq(UpperCase, i, i) = c
  THEN LET i == CHOOSE j \in 1..26 : SubSeq(UpperCase, j, j) = c IN SubSeq(LowerCase, i, i)
  ELSE c

\* String.prototype.toLowerCase
RECURSIVE ToLowerCase(_)
ToLowerCase(s) ==
  IF Len(s) = 0 THEN ""
  ELSE IF Len(s) = 1 THEN LowerChar(s)
  ELSE ToLowerCase(SubSeq(s, 1, Len(s) \div 2)) \o ToLowerCase(SubSeq(s, (Len(s) \div 2) + 1, Len(s)))

\* JSON.parse of the metrics column: the entries of the parsed object, in order;
\* any other text throws
JsonGoalsMiles == "{\"goals\":2,\"miles\":7}"
JsonGoalsZero == "{\"goals\":0,\"note\":\"x\"}"

JsonParses(s) == s \in {JsonGoalsMiles, JsonGoalsZero}

JsonParse(s) ==
  CASE s = JsonGoalsMiles -> << <<"goals", Num(2)>>, <<"miles", Num(7)>> >>
    [] s = JsonGoalsZero -> << <<"goals", Num(0)>>, <<"note", Str("x")>> >>

-----------------------------------------------------------------------------
(* DataPipeline: from a dataset to its recordMetric calls *)

Call(metric, value, domain, timestamp, source) ==
  [metric |-> metric, value |-> value, domain |-> domain, timestamp |-> timestamp, source |-> source]

\* a sequence flattened: SeqConcat(<<a, b, c>>) = a \o b \o c
RECURSIVE SeqConcat(_)
SeqConcat(ss) == IF ss = << >> THEN << >> ELSE ss[1] \o SeqConcat(Tail(ss))

\* dataset.columns.includes(name)
HasColumn(dataset, name) == \E i \in 1..Len(dataset.columns) : dataset.columns[i] = name

\* isNLPProcessedData
PipelineIsNLPProcessedData(dataset) == HasColumn(dataset, "domain") /\ HasColumn(dataset, "metrics")

\* NumericColumnCalls without the test value > 0
NumericColumnCallsAnySign(row, dataset, domain, timestamp) ==
  SeqConcat([i \in 1..Len(dataset.columns) |->
    LET col   == dataset.columns[i]
        value == ParseFloat(Field(row, col))
    IN  IF dataset.columnTypes[col] = "number" /\ Truthy(Field(row, col))
           /\ ~value.nan
        THEN <<Call(col, value.v, domain, timestamp, dataset.name)>>
        ELSE << >>])

\* the forEach over dataset.columns of processNLPData and processStandardData
NumericColumnCalls(row, dataset, domain, timestamp) ==
  SeqConcat([i \in 1..Len(dataset.columns) |->
    LET col   == dataset.columns[i]
        value == ParseFloat(Field(row, col))
    IN  IF dataset.columnTypes[col] = "number" /\ Truthy(Field(row, col))
           /\ ~value.nan /\ value.v > 0
        THEN <<Call(col, value.v, domain, timestamp, dataset.name)>>
        ELSE << >>])

\* the Object.entries(metrics).forEach of processNLPData; a JSON.parse that throws
\* is caught and records nothing
NLPMetricCalls(row, dataset, domain, timestamp) ==
  LET cell == Field(row, "metrics")
  IN  IF Truthy(cell) /\ cell.t = "string" /\ JsonParses(cell.s)
      THEN LET entries == JsonParse(cell.s)
           IN  SeqConcat([i \in 1..Len(entries) |->
                 IF entries[i][2].t = "number" /\ entries[i][2].v > 0
                 THEN <<Call(entries[i][1], entries[i][2].v, domain, timestamp, dataset.name)>>
                 ELSE << >>])
      ELSE << >>

\* processNLPData
ProcessNLPData(dataset) ==
  SeqConcat([i \in 1..Len(dataset.data) |->
    LET row       == dataset.data[i]
        domain    == IF Truthy(Field(row, "domain")) THEN Field(row, "domain").s ELSE "general"
        timestamp == IF Truthy(Field(row, "timestamp")) THEN Field(row, "timestamp").v
                     ELSE dataset.createdAt
    IN  NLPMetricCalls(row, dataset, domain, timestamp)
        \o NumericColumnCalls(row, dataset, domain, timestamp)])

\* columns.some(col => one of the keywords is included in col), columns lowercased
SomeColumnIncludes(dataset, keywords) ==
  \E i \in 1..Len(dataset.columns) :
    \E kw \in keywords : Includes(ToLowerCase(dataset.columns[i]), kw)

\* DataPipeline.detectDomain
PipelineDetectDomain(dataset) ==
  IF SomeColumnIncludes(dataset, {"goal", "score", "match"}) THEN "sports"
  ELSE IF SomeColumnIncludes(dataset, {"money", "cost", "price", "amount"}) THEN "financial"
  ELSE IF SomeColumnIncludes(dataset, {"weight", "calorie", "exercise"}) THEN "health"
  ELSE "general"

SportsMetrics ==
  << "goals", "assists", "points", "score", "distance", "time", "speed",
     "shots", "passes", "tackles", "saves", "wins", "losses" >>
FinancialMetrics ==
  << "amount", "cost", "price", "expense", "income", "budget", "savings",
     "spending", "revenue", "profit", "loss" >>
HealthMetrics ==
  << "weight", "calories", "steps", "heart_rate", "blood_pressure",
     "exercise_time", "sleep_hours", "water_intake" >>

\* extractNumericValue without the partial match
ExtractNumericValueDirectOnly(row, dataset, metricName) ==
  LET direct == ParseFloat(Field(row, metricName))
  IN  IF Field(row, metricName) # Undefined /\ ~direct.nan THEN direct.v ELSE 0

\* extractNumericValue
ExtractNumericValue(row, dataset, metricName) ==
  LET direct   == ParseFloat(Field(row, metricName))
      matching == {i \in 1..Len(dataset.columns) :
                     Includes(ToLowerCase(dataset.columns[i]), ToLowerCase(metricName))}
      column   == dataset.columns[CHOOSE i \in matching : \A j \in matching : i <= j]
      partial  == ParseFloat(Field(row, column))
  IN  IF Field(row, metricName) # Undefined /\ ~direct.nan THEN direct.v
      ELSE IF matching # {} /\ Field(row, column) # Undefined /\ ~partial.nan THEN partial.v
      ELSE 0

\* extractSportsMetrics, extractFinancialMetrics, extractHealthMetrics
ExtractDomainMetrics(row, dataset, timestamp, names, domain) ==
  SeqConcat([i \in 1..Len(names) |->
    LET value == ExtractNumericValue(row, dataset, names[i])
    IN  IF value > 0 THEN <<Call(names[i], value, domain, timestamp, dataset.name)>> ELSE << >>])

\* the body of the loop of processStandardData over dataset.data: the calls made
\* for one row
ProcessStandardRow(row, dataset, domain) ==
  LET timestamp == dataset.createdAt
  IN  NumericColumnCalls(row, dataset, domain, timestamp)
      \o (IF domain = "sports"
          THEN ExtractDomainMetrics(row, dataset, timestamp, SportsMetrics, "sports")
          ELSE << >>)
      \o (IF domain = "financial"
          THEN ExtractDomainMetrics(row, dataset, timestamp, FinancialMetrics, "financial")
          ELSE << >>)
      \o (IF domain = "health"
          THEN ExtractDomainMetrics(row, dataset, timestamp, HealthMetrics, "health")
          ELSE << >>)

\* processStandardData
ProcessStandardData(dataset) ==
  LET domain == PipelineDetectDomain(dataset)
  IN  SeqConcat([i \in 1..Len(dataset.data) |->
        ProcessStandardRow(dataset.data[i], dataset, domain)])

\* processDataset: the recordMetric calls it makes, in order
ProcessDataset(dataset) ==
  IF PipelineIsNLPProcessedData(dataset) THEN ProcessNLPData(dataset)
  ELSE ProcessStandardData(dataset)

\* the registry after a sequence of recordMetric calls
RECURSIVE ApplyCalls(_, _)
ApplyCalls(reg, calls) ==
  IF calls = << >> THEN reg
  ELSE ApplyCalls(RecordMetric(reg, calls[1].metric, calls[1].value, calls[1].domain,
                               calls[1].timestamp, calls[1].source), Tail(calls))

RECURSIVE ApplyWriters(_, _, _)
ApplyWriters(wr, calls, r) ==
  IF calls = << >> THEN wr
  ELSE ApplyWriters(RecordWriter(wr, calls[1].metric, calls[1].domain, r), Tail(calls), r)

-----------------------------------------------------------------------------
(* DataPipeline: buildDomainMetrics, analyzeCrossDomain, buildSummary *)

\* key.split(':')[0]
RECURSIVE BeforeColon(_)
BeforeColon(s) ==
  IF Len(s) = 0 \/ SubSeq(s, 1, 1) = ":" THEN ""
  ELSE SubSeq(s, 1, 1) \o BeforeColon(SubSeq(s, 2, Len(s)))

SetMin(S) == CHOOSE x \in S : \A y \in S : x <= y
SetMax(S) == CHOOSE x \in S : \A y \in S : x >= y

\* buildDomainMetrics: one DomainMetrics per domain of the registry; `metrics` maps
\* a metric name to the key of the registry aggregation the object refers to
BuildDomainMetrics(reg) ==
  { LET keys  == {k \in DOMAIN reg : BeforeColon(k) = domain}
        dates == UNION {{reg[k].history[i].date : i \in 1..Len(reg[k].history)} : k \in keys}
    IN  [ domain |-> domain,
          metrics |-> [m \in {reg[k].metric : k \in keys} |->
                         CHOOSE k \in keys : reg[k].metric = m],
          totalEntries |-> SumOver([k \in keys |-> reg[k].count], keys),
          timeRange |-> [start |-> SetMin(dates), end |-> SetMax(dates)] ]
    : domain \in {BeforeColon(k) : k \in DOMAIN reg} }

\* calculateCorrelation with nothing taken off when the trends differ
CalculateCorrelationNoPenalty(metric1, metric2) ==
  LET trendCorrelation == IF metric1.trend = metric2.trend THEN 3 ELSE 0
      close == Abs(metric1.average[1] * metric2.average[2] - metric2.average[1] * metric1.average[2])
                 < 10 * metric1.average[2] * metric2.average[2]
      valueCorrelation == IF close THEN 2 ELSE 0
  IN  Min2(10, Max2(-10, trendCorrelation + valueCorrelation))

\* calculateCorrelation, in tenths
CalculateCorrelation(metric1, metric2) ==
  LET trendCorrelation == IF metric1.trend = metric2.trend THEN 3 ELSE -1
      \* Math.abs(metric1.average - metric2.average) < 10
      close == Abs(metric1.average[1] * metric2.average[2] - metric2.average[1] * metric1.average[2])
                 < 10 * metric1.average[2] * metric2.average[2]
      valueCorrelation == IF close THEN 2 ELSE 0
  IN  Min2(10, Max2(-10, trendCorrelation + valueCorrelation))

\* the strength with limits that take in 0.7 and 0.5 themselves
CorrelationStrengthInclusive(correlation) ==
  IF correlation >= 7 THEN "strong" ELSE IF correlation >= 5 THEN "moderate" ELSE "weak"

CorrelationStrength(correlation) ==
  IF correlation > 7 THEN "strong" ELSE IF correlation > 5 THEN "moderate" ELSE "weak"

\* the keys of the aggregations the DomainMetrics refer to
MetricRefs(dms) == UNION {{dm.metrics[m] : m \in DOMAIN dm.metrics} : dm \in dms}

\* the correlations analyzeCrossDomain pushes: one per pair of aggregations above 0.3
CrossCorrelations(dms, reg) ==
  { [ metrics |-> pair,
      correlation |-> LET a == CHOOSE k \in pair : TRUE
                          b == CHOOSE k \in pair : k # a
                      IN  CalculateCorrelation(reg[a], reg[b]),
      strength |-> LET a == CHOOSE k \in pair : TRUE
                       b == CHOOSE k \in pair : k # a
                   IN  CorrelationStrength(CalculateCorrelation(reg[a], reg[b])) ]
    : pair \in { p \in SUBSET MetricRefs(dms) :
                   /\ Cardinality(p) = 2
                   /\ LET a == CHOOSE k \in p : TRUE
                          b == CHOOSE k \in p : k # a
                      IN  CalculateCorrelation(reg[a], reg[b]) > 3 } }

\* dm.metrics[name]?.total || 0
MetricTotal(dms, reg, domain, name) ==
  IF \E dm \in dms : dm.domain = domain /\ name \in DOMAIN dm.metrics
  THEN LET dm == CHOOSE d \in dms : d.domain = domain IN reg[dm.metrics[name]].total
  ELSE 0

\* generateCombinedInsights: the totals it reports
GenerateCombinedInsights(dms, reg) ==
  { ins \in { [label |-> "Total goals scored", total |-> MetricTotal(dms, reg, "sports", "goals")],
              [label |-> "Total assists", total |-> MetricTotal(dms, reg, "sports", "assists")],
              [label |-> "Total spending", total |-> MetricTotal(dms, reg, "financial", "amount")],
              [label |-> "Total savings", total |-> MetricTotal(dms, reg, "financial", "savings")],
              [label |-> "Total steps", total |-> MetricTotal(dms, reg, "health", "steps")],
              [label |-> "Total calories burned", total |-> MetricTotal(dms, reg, "health", "calories")] }
      : ins.total > 0 }

\* dm.metrics[name] exists and has this trend
MetricTrendIs(dms, reg, domain, name, trend) ==
  \E dm \in dms : /\ dm.domain = domain
                  /\ name \in DOMAIN dm.metrics
                  /\ reg[dm.metrics[name]].trend = trend

StrongCorrelationsRecommendation ==
  "Some metrics show strong correlations - consider analyzing these relationships further"

\* DataPipeline.generateRecommendations (at most four are pushed, so slice(0, 5) keeps all)
PipelineRecommendations(dms, reg, correlations) ==
  (IF MetricTrendIs(dms, reg, "sports", "goals", "decreasing")
   THEN {"Focus on improving goal-scoring performance"} ELSE {})
  \cup (IF MetricTrendIs(dms, reg, "financial", "amount", "increasing")
        THEN {"Consider reviewing spending patterns to identify savings opportunities"} ELSE {})
  \cup (IF MetricTrendIs(dms, reg, "health", "steps", "decreasing")
        THEN {"Try to increase daily step count for better health"} ELSE {})
  \cup (IF \E c \in correlations : c.strength = "strong"
        THEN {StrongCorrelationsRecommendation} ELSE {})

\* analyzeCrossDomain
AnalyzeCrossDomain(dms, reg) ==
  LET correlations == CrossCorrelations(dms, reg)
  IN  [ correlations |-> correlations,
        combinedInsights |-> GenerateCombinedInsights(dms, reg),
        recommendations |-> PipelineRecommendations(dms, reg, correlations) ]

\* buildSummary
BuildSummary(dms) ==
  [ totalMetrics |-> SumOver([dm \in dms |-> Cardinality(DOMAIN dm.metrics)], dms),
    totalEntries |-> SumOver([dm \in dms |-> dm.totalEntries], dms),
    domains |-> {dm.domain : dm \in dms} ]

NoAnalysis == [correlations |-> {}, combinedInsights |-> {}, recommendations |-> {}]

\* what the catch block of buildMetrics returns
ErrorResult ==
  [ domainMetrics |-> {},
    crossDomainAnalysis |-> NoAnalysis,
    summary |-> [totalMetrics |-> 0, totalEntries |-> 0, domains |-> {}] ]

\* the object buildMetrics returns: its DomainMetrics hold the registry's own
\* aggregation objects, read here as they are when the call returns
BuildResult(dms, cd, reg) ==
  [ domainMetrics |-> { [ domain |-> dm.domain,
                          metrics |-> [m \in DOMAIN dm.metrics |-> reg[dm.metrics[m]]],
                          totalEntries |-> dm.totalEntries,
                          timeRange |-> dm.timeRange ] : dm \in dms },
    crossDomainAnalysis |-> cd,
    summary |-> BuildSummary(dms) ]

-----------------------------------------------------------------------------
(* The dataset store *)

Row2(c1, v1, c2, v2) == [c \in {c1, c2} |-> IF c = c1 THEN v1 ELSE v2]
Row3(c1, v1, c2, v2, c3, v3) ==
  [c \in {c1, c2, c3} |-> IF c = c1 THEN v1 ELSE IF c = c2 THEN v2 ELSE v3]

\* a tabular sports file: the second row holds a non-numeric cell in a number column
MatchesFile ==
  [ id |-> "f1", fileName |-> "matches.csv", uploadDate |-> 1,
    columns |-> <<"goals", "assists", "opponent">>,
    columnTypes |-> Row3("goals", "number", "assists", "number", "opponent", "string"),
    data |-> << Row3("goals", Num(2), "assists", Num(1), "opponent", Str("reds")),
                Row3("goals", Num(4), "assists", Str("abc"), "opponent", Str("blues")) >> ]

\* a text entry already processed by the NLP path
EntryFile ==
  [ id |-> "f2", fileName |-> "entry.txt", uploadDate |-> 2,
    columns |-> <<"domain", "metrics", "confidence">>,
    columnTypes |-> Row3("domain", "string", "metrics", "string", "confidence", "number"),
    data |-> << Row3("domain", Str("sports"), "metrics", Str(JsonGoalsMiles), "confidence", Num(1)),
                Row3("domain", Str(""), "metrics", Str(JsonGoalsZero), "confidence", Num(0)),
                Row3("domain", Str("health"), "metrics", Str("not json"), "confidence", Num(1)) >> ]

\* a tabular financial file whose column name differs in case from the canonical name
BudgetFile ==
  [ id |-> "f3", fileName |-> "budget.csv", uploadDate |-> 3,
    columns |-> <<"Amount", "notes">>,
    columnTypes |-> Row2("Amount", "number", "notes", "string"),
    data |-> << Row2("Amount", Num(10), "notes", Str("rent")),
                Row2("Amount", Str("25"), "notes", Str("food")),
                Row2("Amount", Num(-5), "notes", Str("refund")) >> ]

\* a file without rows
EmptyFile ==
  [ id |-> "f4", fileName |-> "empty.csv", uploadDate |-> 4,
    columns |-> <<"weight">>,
    columnTypes |-> [c \in {"weight"} |-> "number"],
    data |-> << >> ]

FilePool == <<MatchesFile, EntryFile, BudgetFile, EmptyFile>>

\* the stores: at most MaxFiles files of the pool, in pool order
RECURSIVE FilesAt(_, _)
FilesAt(chosen, i) ==
  IF i > Len(FilePool) THEN << >>
  ELSE (IF i \in chosen THEN <<FilePool[i]>> ELSE << >>) \o FilesAt(chosen, i + 1)

Stores == { FilesAt(chosen, 1) :
              chosen \in {c \in SUBSET (1..Len(FilePool)) : Cardinality(c) <= MaxFiles} }

\* the dataset getAllData pushes for a file
DatasetOf(file) ==
  [ id |-> file.id, name |-> file.fileName, data |-> file.data,
    columns |-> file.columns, columnTypes |-> file.columnTypes,
    createdAt |-> file.uploadDate ]

\* getAllData when getFileData throws for the files at the positions `failed`:
\* the files with at least one row, in store order
GetAllData(files, failed) ==
  SeqConcat([i \in 1..Len(files) |->
    IF i \notin failed /\ Len(files[i].data) > 0 THEN <<DatasetOf(files[i])>> ELSE << >>])

\* ProcessDataset of every file of the pool, computed once: processDataset is a
\* function of the dataset alone
PoolCalls == [i \in 1..Len(FilePool) |-> ProcessDataset(DatasetOf(FilePool[i]))]

DatasetCalls(dataset) ==
  PoolCalls[CHOOSE i \in 1..Len(FilePool) : DatasetOf(FilePool[i]) = dataset]

-----------------------------------------------------------------------------
(* buildMetrics as a process: the steps between its awaits *)

Runs == 1..MaxRuns

\* buildMetrics is called and getAllData resolves with the datasets it could read;
\* getFileData throws for at most one file
GetAllDataDone(r) ==
  /\ pc[r] = "idle"
  /\ \E failed \in {{}} \cup {{i} : i \in 1..Len(store)} :
       allData' = [allData EXCEPT ![r] = GetAllData(store, failed)]
  /\ idx' = [idx EXCEPT ![r] = 1]
  /\ pc' = [pc EXCEPT ![r] = "process"]
  /\ UNCHANGED <<registry, writer, store, domainMetrics, crossDomain, result>>

\* getAllFiles rejects: the catch block of buildMetrics returns the empty result
GetAllDataFails(r) ==
  /\ pc[r] = "idle"
  /\ result' = [result EXCEPT ![r] = ErrorResult]
  /\ pc' = [pc EXCEPT ![r] = "done"]
  /\ UNCHANGED <<registry, writer, store, allData, idx, domainMetrics, crossDomain>>

\* ProcessNext with a registry of the run's own: the dataset's metrics replace
\* what the registry held
ProcessNextOwnRegistry(r) ==
  /\ pc[r] = "process"
  /\ idx[r] <= Len(allData[r])
  /\ LET calls == DatasetCalls(allData[r][idx[r]])
     IN  /\ registry' = ApplyCalls(EmptyRegistry, calls)
         /\ writer' = ApplyWriters(EmptyRegistry, calls, r)
  /\ idx' = [idx EXCEPT ![r] = @ + 1]
  /\ UNCHANGED <<store, pc, allData, domainMetrics, crossDomain, result>>

\* one iteration of the for-loop: processDataset runs to its end without a pause
\* and buildMetrics then waits on its promise
ProcessNext(r) ==
  /\ pc[r] = "process"
  /\ idx[r] <= Len(allData[r])
  /\ LET calls == DatasetCalls(allData[r][idx[r]])
     IN  /\ registry' = ApplyCalls(registry, calls)
         /\ writer' = ApplyWriters(writer, calls, r)
  /\ idx' = [idx EXCEPT ![r] = @ + 1]
  /\ UNCHANGED <<store, pc, allData, domainMetrics, crossDomain, result>>

\* the loop is over: buildDomainMetrics runs, buildMetrics waits on its promise
BuildDomain(r) ==
  /\ pc[r] = "process"
  /\ idx[r] > Len(allData[r])
  /\ domainMetrics' = [domainMetrics EXCEPT ![r] = BuildDomainMetrics(registry)]
  /\ pc' = [pc EXCEPT ![r] = "analyze"]
  /\ UNCHANGED <<registry, writer, store, allData, idx, crossDomain, result>>

\* analyzeCrossDomain runs, buildMetrics waits on its promise
Analyze(r) ==
  /\ pc[r] = "analyze"
  /\ crossDomain' = [crossDomain EXCEPT ![r] = AnalyzeCrossDomain(domainMetrics[r], registry)]
  /\ pc' = [pc EXCEPT ![r] = "summary"]
  /\ UNCHANGED <<registry, writer, store, allData, idx, domainMetrics, result>>

\* buildSummary, and buildMetrics returns
ReturnResult(r) ==
  /\ pc[r] = "summary"
  /\ result' = [result EXCEPT ![r] = BuildResult(domainMetrics[r], crossDomain[r], registry)]
  /\ pc' = [pc EXCEPT ![r] = "done"]
  /\ UNCHANGED <<registry, writer, store, allData, idx, domainMetrics, crossDomain>>

\* clearMetrics: only the test script calls it, before its one buildMetrics call
ClearMetrics ==
  /\ registry' = EmptyRegistry
  /\ writer' = EmptyRegistry
  /\ UNCHANGED <<store, pc, allData, idx, domainMetrics, crossDomain, result>>

NoResult == [none |-> TRUE]

InitRuns ==
  /\ registry = EmptyRegistry
  /\ writer = EmptyRegistry
  /\ pc = [r \in Runs |-> "idle"]
  /\ allData = [r \in Runs |-> << >>]
  /\ idx = [r \in Runs |-> 1]
  /\ domainMetrics = [r \in Runs |-> {}]
  /\ crossDomain = [r \in Runs |-> NoAnalysis]
  /\ result = [r \in Runs |-> NoResult]

\* no analysis function is being called
NoCall == args = NoResult /\ returned = NoResult

InitBuild == InitRuns /\ NoCall /\ store \in Stores

RunStep(r) ==
  \/ GetAllDataDone(r)
  \/ GetAllDataFails(r)
  \/ ProcessNext(r)
  \/ BuildDomain(r)
  \/ Analyze(r)
  \/ ReturnResult(r)

\* two buildMetrics calls that may overlap
Overlapping == {1, 2}

NextBuild == (\E r \in Overlapping : RunStep(r)) /\ UNCHANGED <<args, returned>>

SpecBuild == InitBuild /\ [][NextBuild]_vars

\* buildMetrics calls made one after the other: a call starts when no other is running
NoneRunning == \A r \in Runs : pc[r] \in {"idle", "done"}

NextConsecutive ==
  /\ \E r \in Runs : (pc[r] = "idle" => NoneRunning) /\ RunStep(r)
  /\ UNCHANGED <<args, returned>>

SpecConsecutive == InitBuild /\ [][NextConsecutive]_vars

-----------------------------------------------------------------------------
(* recordMetric called directly *)

CallMetrics == {"goals", "miles"}
CallValues == {1, 2, 3}
CallDomains == {"sports"}
CallTimestamps == {1, 2}
CallSources == {"entry.txt"}

RecordMetricCall ==
  /\ TotalCount(registry) < MaxCalls
  /\ \E metric \in CallMetrics, value \in CallValues, domain \in CallDomains,
        timestamp \in CallTimestamps, source \in CallSources :
       registry' = RecordMetric(registry, metric, value, domain, timestamp, source)
  /\ UNCHANGED <<writer, store, pc, allData, idx, domainMetrics, crossDomain, result>>

InitRecord == InitRuns /\ NoCall /\ store = << >>

NextRecord == RecordMetricCall /\ UNCHANGED <<args, returned>>

SpecRecord == InitRecord /\ [][NextRecord]_vars

-----------------------------------------------------------------------------
(* DomainAnalyzer: the classifier of a dataset *)

MaxColumns == 2

\* the decimal digits of a natural number
RECURSIVE NatToString(_)
NatToString(n) ==
  IF n < 10 THEN Digits[n + 1] ELSE NatToString(n \div 10) \o Digits[(n % 10) + 1]

\* String(value)
StringOf(cell) ==
  CASE cell.t = "number" -> IF cell.v < 0 THEN "-" \o NatToString(-cell.v) ELSE NatToString(cell.v)
    [] cell.t = "string" -> cell.s
    [] OTHER -> "undefined"

\* keywords.some(keyword => col.toLowerCase().includes(keyword))
HasKeyword(col, keywords) ==
  LET lower == ToLowerCase(col) IN \E kw \in keywords : Includes(lower, kw)

MoneyKeywords ==
  {"money", "amount", "cost", "price", "savings", "spending", "expense", "income",
   "revenue", "budget", "cash", "dollar", "euro", "pound", "currency"}

SportsKeywords ==
  {"goal", "assist", "score", "point", "win", "loss", "match", "game", "performance",
   "fitness", "exercise", "workout"}

HealthKeywords ==
  {"weight", "height", "bmi", "heart", "blood", "pressure", "sleep", "calories", "steps",
   "mood", "energy"}

ProductivityKeywords ==
  {"task", "todo", "project", "work", "study", "read", "write", "complete", "done",
   "progress"}

IsMoneyColumn(col) == HasKeyword(col, MoneyKeywords)
IsSportsPerformanceColumn(col) == HasKeyword(col, SportsKeywords)
IsHealthColumn(col) == HasKeyword(col, HealthKeywords)
IsProductivityColumn(col) == HasKeyword(col, ProductivityKeywords)

\* data.slice(0, 10).map(row => String(row[col]))
SampleValues(data, col) ==
  {StringOf(Field(data[i], col)) : i \in 1..Min2(Len(data), 10)}

\* /\d+\.\d{2}/.test(val)
HasTwoDecimals(val) ==
  \E i \in 1..(Len(val) - 3) :
    /\ IsDigit(SubSeq(val, i, i))
    /\ SubSeq(val, i + 1, i + 1) = "."
    /\ IsDigit(SubSeq(val, i + 2, i + 2))
    /\ IsDigit(SubSeq(val, i + 3, i + 3))

CurrencySymbols == {"$", "€", "£", "¥", "₹"}

HasMoneyValues(data, col) ==
  \E val \in SampleValues(data, col) :
    \/ \E sym \in CurrencySymbols : Includes(val, sym)
    \/ HasTwoDecimals(val)

\* a case-insensitive alternation of words, tested on the sample values
HasValuesMatching(data, col, words) ==
  \E val \in SampleValues(data, col) : HasKeyword(val, words)

HasSportsValues(data, col) ==
  HasValuesMatching(data, col, {"goal", "assist", "win", "loss", "match"})

HasHealthValues(data, col) ==
  HasValuesMatching(data, col, {"weight", "height", "bmi", "sleep", "calories"})

HasProductivityValues(data, col) ==
  HasValuesMatching(data, col, {"task", "todo", "project", "complete", "done"})

\* getDomainIndicators: the set of indicators found over all columns
GetDomainIndicators(data, columns) ==
  LET cols == {columns[i] : i \in 1..Len(columns)}
  IN  {ind \in {"money", "currency", "sports", "performance", "health", "wellness",
                "productivity", "tasks"} :
         \E col \in cols :
           CASE ind = "money" -> IsMoneyColumn(col)
             [] ind = "currency" -> HasMoneyValues(data, col)
             [] ind = "sports" -> IsSportsPerformanceColumn(col)
             [] ind = "performance" -> HasSportsValues(data, col)
             [] ind = "health" -> IsHealthColumn(col)
             [] ind = "wellness" -> HasHealthValues(data, col)
             [] ind = "productivity" -> IsProductivityColumn(col)
             [] ind = "tasks" -> HasProductivityValues(data, col)}

IsFinancialData(indicators, columns) ==
  \/ "money" \in indicators
  \/ "currency" \in indicators
  \/ \E i \in 1..Len(columns) : IsMoneyColumn(columns[i])

IsSportsData(indicators, columns) ==
  \/ "sports" \in indicators
  \/ "performance" \in indicators
  \/ \E i \in 1..Len(columns) : IsSportsPerformanceColumn(columns[i])

IsHealthData(indicators, columns) ==
  \/ "health" \in indicators
  \/ "wellness" \in indicators
  \/ \E i \in 1..Len(columns) : IsHealthColumn(columns[i])

IsProductivityData(indicators, columns) ==
  \/ "productivity" \in indicators
  \/ "tasks" \in indicators
  \/ \E i \in 1..Len(columns) : IsProductivityColumn(columns[i])

\* calculate<Domain>Confidence with the two increments exchanged
DomainConfidenceWeightsSwapped(indicators, nameIndicator, valueIndicator) ==
  Min2(5 + (IF nameIndicator \in indicators THEN 2 ELSE 0)
         + (IF valueIndicator \in indicators THEN 3 ELSE 0), 10)

\* calculate<Domain>Confidence, in tenths: 0.5, plus 0.3 and 0.2 for the two indicators
DomainConfidence(indicators, nameIndicator, valueIndicator) ==
  Min2(5 + (IF nameIndicator \in indicators THEN 3 ELSE 0)
         + (IF valueIndicator \in indicators THEN 2 ELSE 0), 10)

DataDomain(type, confidence, indicators, columns) ==
  [type |-> type, confidence |-> confidence, indicators |-> indicators, columns |-> columns]

\* detectDomain with the sports test ahead of the financial test
DetectDomainSportsFirst(data, columns) ==
  LET indicators == GetDomainIndicators(data, columns)
  IN  IF IsSportsData(indicators, columns)
      THEN DataDomain("sports", DomainConfidence(indicators, "sports", "performance"),
                      indicators, columns)
      ELSE IF IsFinancialData(indicators, columns)
      THEN DataDomain("financial", DomainConfidence(indicators, "money", "currency"),
                      indicators, columns)
      ELSE IF IsHealthData(indicators, columns)
      THEN DataDomain("health", DomainConfidence(indicators, "health", "wellness"),
                      indicators, columns)
      ELSE IF IsProductivityData(indicators, columns)
      THEN DataDomain("productivity", DomainConfidence(indicators, "productivity", "tasks"),
                      indicators, columns)
      ELSE DataDomain("general", 5, indicators, columns)

\* DomainAnalyzer.detectDomain
DetectDomain(data, columns) ==
  LET indicators == GetDomainIndicators(data, columns)
  IN  IF IsFinancialData(indicators, columns)
      THEN DataDomain("financial", DomainConfidence(indicators, "money", "currency"),
                      indicators, columns)
      ELSE IF IsSportsData(indicators, columns)
      THEN DataDomain("sports", DomainConfidence(indicators, "sports", "performance"),
                      indicators, columns)
      ELSE IF IsHealthData(indicators, columns)
      THEN DataDomain("health", DomainConfidence(indicators, "health", "wellness"),
                      indicators, columns)
      ELSE IF IsProductivityData(indicators, columns)
      THEN DataDomain("productivity", DomainConfidence(indicators, "productivity", "tasks"),
                      indicators, columns)
      ELSE DataDomain("general", 5, indicators, columns)

\* the column names and the cell values the datasets are drawn from
ColumnPool == <<"goals", "Amount", "Weight", "tasks", "notes", "Workout Price">>
CellPool ==
  {Num(3), Str("$5"), Str("12.50"), Str("Won the match"), Str("sleep 8h"), Str("done"),
   Undefined}

\* the names of the pool at the chosen positions, in pool order
RECURSIVE ColumnsAt(_, _)
ColumnsAt(chosen, i) ==
  IF i > Len(ColumnPool) THEN << >>
  ELSE (IF i \in chosen THEN <<ColumnPool[i]>> ELSE << >>) \o ColumnsAt(chosen, i + 1)

\* datasets of at most MaxColumns columns, without rows or with one row
Datasets ==
  UNION {
    LET columns == ColumnsAt(chosen, 1)
        names == {columns[i] : i \in 1..Len(columns)}
    IN  {[columns |-> columns, data |-> << >>]}
        \cup {[columns |-> columns, data |-> <<row>>] : row \in [names -> CellPool]}
    : chosen \in {c \in SUBSET (1..Len(ColumnPool)) : Cardinality(c) <= MaxColumns} }

DetectDomainCall ==
  /\ returned = NoResult
  /\ returned' = DetectDomain(args.data, args.columns)
  /\ UNCHANGED <<pipelineVars, args>>

InitClassify == InitRuns /\ store = << >> /\ args \in Datasets /\ returned = NoResult

NextClassify == DetectDomainCall

SpecClassify == InitClassify /\ [][NextClassify]_vars

-----------------------------------------------------------------------------
(* AnalyticsService: the order of the insights of an analysis *)

MaxInsights == 3

\* ToNumber of a value that is multiplied: a number, or a string of digits; any
\* other string is NaN
ToNumber(cell) ==
  CASE cell.t = "number" -> Number(cell.v)
    [] cell.t = "string" ->
         IF cell.s = "" THEN Number(0)
         ELSE IF DigitRun(cell.s, 1) = Len(cell.s) THEN Number(DigitsValue(cell.s, 1, Len(cell.s)))
         ELSE NaN
    [] OTHER -> NaN

\* firstRow.confidence || 0.8, confidences in tenths
ConfidenceOrDefault(cell) == IF Truthy(cell) THEN cell ELSE Num(8)

Insight(priority, confidence) == [priority |-> priority, confidence |-> confidence]

\* the priority and confidence of the insights DomainAnalyzer generates
DomainInsights ==
  {Insight("high", Num(9)), Insight("high", Num(8)), Insight("medium", Num(9)),
   Insight("medium", Num(8)), Insight("medium", Num(7))}

\* the confidence cells of the first row of stored NLP datasets
RowConfidences == {Num(6), Undefined, Str("high")}

\* generateNLPInsights: medium for metrics and insights, high for recommendations,
\* each with the confidence of the first row
NLPInsights ==
  {Insight(priority, ConfidenceOrDefault(cell)) :
     priority \in {"medium", "high"}, cell \in RowConfidences}

\* allInsights before the sort: the title stands for the position in the input
InsightLists ==
  UNION {[1..n -> DomainInsights \cup NLPInsights] : n \in 0..MaxInsights}

Titled(list) ==
  [i \in 1..Len(list) |->
     [title |-> i, priority |-> list[i].priority, confidence |-> list[i].confidence]]

PriorityOrder(priority) ==
  CASE priority = "high" -> 3 [] priority = "medium" -> 2 [] priority = "low" -> 1

\* priorityOrder[a.priority] * a.confidence
Score(a) ==
  LET c == ToNumber(a.confidence)
  IN  IF c.nan THEN NaN ELSE Number(PriorityOrder(a.priority) * c.v)

\* the comparator (a, b) => bScore - aScore as sort reads it: NaN counts as 0
SortCompare(a, b) ==
  LET aScore == Score(a)
      bScore == Score(b)
  IN  IF aScore.nan \/ bScore.nan THEN 0 ELSE bScore.v - aScore.v

\* SortCompare with the scores subtracted the other way round
SortCompareAscending(a, b) ==
  LET aScore == Score(a)
      bScore == Score(b)
  IN  IF aScore.nan \/ bScore.nan THEN 0 ELSE aScore.v - bScore.v

Elements(list) == {list[i] : i \in 1..Len(list)}

\* x moved left past the elements that come after it, as insertion sort does
InsertSorted(sorted, x) ==
  LET k == SetMax({0} \cup {i \in 1..Len(sorted) : SortCompare(sorted[i], x) <= 0})
  IN  SubSeq(sorted, 1, k) \o <<x>> \o SubSeq(sorted, k + 1, Len(sorted))

RECURSIVE InsertionSort(_)
InsertionSort(list) ==
  IF Len(list) = 0 THEN << >>
  ELSE InsertSorted(InsertionSort(SubSeq(list, 1, Len(list) - 1)), list[Len(list)])

\* the place of x in sorted[left + 1 .. right], found by halving, as binary
\* insertion sort does
RECURSIVE BinaryPlace(_, _, _, _)
BinaryPlace(sorted, x, left, right) ==
  IF left >= right THEN left
  ELSE LET mid == left + ((right - left) \div 2)
       IN  IF SortCompare(x, sorted[mid + 1]) < 0
           THEN BinaryPlace(sorted, x, left, mid)
           ELSE BinaryPlace(sorted, x, mid + 1, right)

RECURSIVE BinaryInsertionSort(_)
BinaryInsertionSort(list) ==
  IF Len(list) = 0 THEN << >>
  ELSE LET sorted == BinaryInsertionSort(SubSeq(list, 1, Len(list) - 1))
           x == list[Len(list)]
           k == BinaryPlace(sorted, x, 0, Len(sorted))
       IN  SubSeq(sorted, 1, k) \o <<x>> \o SubSeq(sorted, k + 1, Len(sorted))

\* Array.prototype.sort on a short array: a stable insertion sort; the two ways
\* of inserting agree unless the comparator is inconsistent
ArraySort(list) == {InsertionSort(list), BinaryInsertionSort(list)}

AnalyzeAllDataSort ==
  /\ returned = NoResult
  /\ \E sorted \in ArraySort(args.allInsights) : returned' = [insights |-> sorted]
  /\ UNCHANGED <<pipelineVars, args>>

InitRank ==
  /\ InitRuns /\ store = << >>
  /\ args \in {[allInsights |-> Titled(list)] : list \in InsightLists}
  /\ returned = NoResult

NextRank == AnalyzeAllDataSort

SpecRank == InitRank /\ [][NextRank]_vars

-----------------------------------------------------------------------------
(* JavaScript numbers: IEEE 754 binary64, sign * m * 2^e with m below 2^53,
   every operation rounded to nearest, ties to even. The significand is a
   natural number of any size, kept as limbs, lowest first. *)

\* bits of a limb
LimbBits == 2 * 7

Limb == 2^LimbBits

RECURSIVE Trim(_)
Trim(a) == IF Len(a) > 0 /\ a[Len(a)] = 0 THEN Trim(SubSeq(a, 1, Len(a) - 1)) ELSE a

RECURSIVE BigOf(_)
BigOf(n) == IF n = 0 THEN << >> ELSE <<n % Limb>> \o BigOf(n \div Limb)

LimbAt(a, i) == IF i <= Len(a) THEN a[i] ELSE 0

RECURSIVE AddFrom(_, _, _, _)
AddFrom(a, b, i, carry) ==
  IF i > Len(a) /\ i > Len(b) THEN (IF carry = 0 THEN << >> ELSE <<carry>>)
  ELSE LET s == LimbAt(a, i) + LimbAt(b, i) + carry
       IN  <<s % Limb>> \o AddFrom(a, b, i + 1, s \div Limb)

BigAdd(a, b) == AddFrom(a, b, 1, 0)

RECURSIVE SubFrom(_, _, _, _)
SubFrom(a, b, i, borrow) ==
  IF i > Len(a) THEN << >>
  ELSE LET d == a[i] - LimbAt(b, i) - borrow
       IN  <<(d + Limb) % Limb>> \o SubFrom(a, b, i + 1, IF d < 0 THEN 1 ELSE 0)

\* a - b for a >= b
BigSub(a, b) == Trim(SubFrom(a, b, 1, 0))

RECURSIVE CmpFrom(_, _, _)
CmpFrom(a, b, i) ==
  IF i = 0 THEN 0
  ELSE IF a[i] # b[i] THEN (IF a[i] < b[i] THEN -1 ELSE 1)
  ELSE CmpFrom(a, b, i - 1)

\* -1, 0 or 1 as a is below, equal to or above b
BigCmp(a, b) ==
  IF Len(a) # Len(b) THEN (IF Len(a) < Len(b) THEN -1 ELSE 1) ELSE CmpFrom(a, b, Len(a))

RECURSIVE MulLimbFrom(_, _, _, _)
MulLimbFrom(a, d, i, carry) ==
  IF i > Len(a) THEN (IF carry = 0 THEN << >> ELSE <<carry>>)
  ELSE LET p == a[i] * d + carry
       IN  <<p % Limb>> \o MulLimbFrom(a, d, i + 1, p \div Limb)

RECURSIVE BigMul(_, _)
BigMul(a, b) ==
  IF Len(a) = 0 \/ Len(b) = 0 THEN << >>
  ELSE Trim(BigAdd(MulLimbFrom(a, b[1], 1, 0), <<0>> \o BigMul(a, Tail(b))))

IsOdd(a) == Len(a) > 0 /\ a[1] % 2 = 1

\* a * 2^k
Shl(a, k) ==
  IF Len(a) = 0 THEN << >>
  ELSE [i \in 1..(k \div LimbBits) |-> 0] \o MulLimbFrom(a, 2^(k % LimbBits), 1, 0)

RECURSIVE DivLimbFrom(_, _, _, _)
DivLimbFrom(a, d, i, carry) ==
  IF i = 0 THEN << >>
  ELSE LET v == carry * Limb + a[i] IN DivLimbFrom(a, d, i - 1, v % d) \o <<v \div d>>

\* a \div 2^k
Shr(a, k) ==
  LET rest == SubSeq(a, (k \div LimbBits) + 1, Len(a))
  IN  Trim(DivLimbFrom(rest, 2^(k % LimbBits), Len(rest), 0))

\* the bits of a natural number below Limb
RECURSIVE LimbLength(_)
LimbLength(v) == IF v = 0 THEN 0 ELSE 1 + LimbLength(v \div 2)

\* the bits of a
BitLength(a) == IF Len(a) = 0 THEN 0 ELSE LimbBits * (Len(a) - 1) + LimbLength(a[Len(a)])

Float(sign, m, e) == [nan |-> FALSE, sign |-> sign, m |-> m, e |-> e]

FloatZero == Float(0, << >>, 0)

FloatNaN == [nan |-> TRUE, sign |-> 0, m |-> << >>, e |-> 0]

\* an integer as a number
FloatOf(n) == IF n = 0 THEN FloatZero ELSE Float(IF n < 0 THEN -1 ELSE 1, BigOf(Abs(n)), 0)

\* the bits of a significand
Precision == 52 + 1

\* sign * m * 2^e rounded to a number
RoundFloat(sign, m, e) ==
  IF Len(m) = 0 THEN FloatZero
  ELSE LET k == BitLength(m) - Precision
       IN  IF k <= 0 THEN Float(sign, m, e)
           ELSE LET q    == Shr(m, k)
                    rem  == BigSub(m, Shl(q, k))
                    c    == BigCmp(rem, Shl(<<1>>, k - 1))
                    up   == c > 0 \/ (c = 0 /\ IsOdd(q))
                IN  Float(sign, IF up THEN BigAdd(q, <<1>>) ELSE q, e + k)

\* x + y and x * y without rounding
ExactAdd(x, y) ==
  IF x.sign = 0 THEN y
  ELSE IF y.sign = 0 THEN x
  ELSE LET e == Min2(x.e, y.e)
           a == Shl(x.m, x.e - e)
           b == Shl(y.m, y.e - e)
           c == BigCmp(a, b)
       IN  IF x.sign = y.sign THEN Float(x.sign, BigAdd(a, b), e)
           ELSE IF c = 0 THEN FloatZero
           ELSE IF c > 0 THEN Float(x.sign, BigSub(a, b), e)
           ELSE Float(y.sign, BigSub(b, a), e)

Negate(x) == Float(-x.sign, x.m, x.e)

ExactSub(x, y) == ExactAdd(x, Negate(y))

ExactMul(x, y) ==
  IF x.sign = 0 \/ y.sign = 0 THEN FloatZero
  ELSE Float(x.sign * y.sign, BigMul(x.m, y.m), x.e + y.e)

Rounded(x) == RoundFloat(x.sign, x.m, x.e)

\* x + y, x - y and x * y as JavaScript computes them
FloatAdd(x, y) == IF x.nan \/ y.nan THEN FloatNaN ELSE Rounded(ExactAdd(x, y))

FloatSub(x, y) == IF x.nan \/ y.nan THEN FloatNaN ELSE Rounded(ExactSub(x, y))

FloatMul(x, y) == IF x.nan \/ y.nan THEN FloatNaN ELSE Rounded(ExactMul(x, y))

\* -1, 0 or 1 as x is below, equal to or above y
FloatCmp(x, y) == ExactSub(x, y).sign

\* the largest digit q with q * d <= n, for n below Limb * d, by bisection
RECURSIVE QuotientDigit(_, _, _, _)
QuotientDigit(n, d, low, high) ==
  IF low = high THEN low
  ELSE LET mid == (low + high + 1) \div 2
       IN  IF BigCmp(MulLimbFrom(d, mid, 1, 0), n) <= 0
           THEN QuotientDigit(n, d, mid, high)
           ELSE QuotientDigit(n, d, low, mid - 1)

\* <<n \div d, n % d>>, by long division from limb i of n down
RECURSIVE DivLimbs(_, _, _, _, _)
DivLimbs(n, d, i, quo, rem) ==
  IF i = 0 THEN <<Trim(quo), rem>>
  ELSE LET r == Trim(<<n[i]>> \o rem)
           q == QuotientDigit(r, d, 0, Limb - 1)
       IN  IF q = 0 THEN DivLimbs(n, d, i - 1, <<0>> \o quo, r)
           ELSE DivLimbs(n, d, i - 1, <<q>> \o quo, BigSub(r, MulLimbFrom(d, q, 1, 0)))

BigDiv(n, d) == DivLimbs(n, d, Len(n), << >>, << >>)

\* x / y for y other than 0
FloatDiv(x, y) ==
  IF x.nan \/ y.nan THEN FloatNaN
  ELSE IF x.sign = 0 THEN FloatZero
  ELSE LET s  == Max2(0, BitLength(y.m) + Precision + 2 - BitLength(x.m))
           qr == BigDiv(Shl(x.m, s), y.m)
           sticky == IF Len(qr[2]) = 0 THEN << >> ELSE <<1>>
       IN  RoundFloat(x.sign * y.sign, BigAdd(BigAdd(qr[1], qr[1]), sticky), x.e - s - y.e - 1)

\* the largest natural number whose square is at most n, by Newton's iteration
\* from a root that is not below it
RECURSIVE SqrtFrom(_, _)
SqrtFrom(n, root) ==
  LET next == Shr(BigAdd(root, BigDiv(n, root)[1]), 1)
  IN  IF BigCmp(next, root) >= 0 THEN root ELSE SqrtFrom(n, next)

BigSqrt(n) == IF Len(n) = 0 THEN << >> ELSE SqrtFrom(n, Shl(<<1>>, (BitLength(n) + 1) \div 2))

\* Math.sqrt
FloatSqrt(x) ==
  IF x.nan \/ x.sign < 0 THEN FloatNaN
  ELSE IF x.sign = 0 THEN FloatZero
  ELSE LET s0 == Max2(0, 2 * (Precision + 2) - BitLength(x.m))
           s  == IF (x.e - s0) % 2 = 0 THEN s0 ELSE s0 + 1
           n  == Shl(x.m, s)
           root == BigSqrt(n)
           sticky == IF BigCmp(BigMul(root, root), n) = 0 THEN << >> ELSE <<1>>
       IN  RoundFloat(1, BigAdd(BigAdd(root, root), sticky), ((x.e - s) \div 2) - 1)

\* Math.abs
FloatAbs(x) == IF x.nan THEN x ELSE Float(Abs(x.sign), x.m, x.e)

\* the number a decimal literal with one decimal place is read as
Tenths(n) == FloatDiv(FloatOf(n), FloatOf(10))

-----------------------------------------------------------------------------
(* DataPipeline: the trend analysis of recordMetric on JavaScript numbers *)

MaxHistory == 4

\* the trend recordMetric leaves after pushing the last of the values: the
\* analysis of the three most recent ones, or the trend as it was
AnalyzeTrend(values, trend) ==
  IF Len(values) >= 3
  THEN LET recent == SubSeq(values, Len(values) - 2, Len(values))
           firstAvg == FloatDiv(FloatAdd(recent[1], recent[2]), FloatOf(2))
           secondAvg == FloatDiv(FloatAdd(recent[2], recent[3]), FloatOf(2))
       IN  IF FloatCmp(secondAvg, FloatMul(firstAvg, Tenths(11))) > 0 THEN "increasing"
           ELSE IF FloatCmp(secondAvg, FloatMul(firstAvg, Tenths(9))) < 0 THEN "decreasing"
           ELSE "stable"
  ELSE trend

\* the trend of an aggregation after one recordMetric call per value
RECURSIVE TrendAfter(_)
TrendAfter(values) ==
  IF Len(values) = 0 THEN "stable"
  ELSE AnalyzeTrend(values, TrendAfter(SubSeq(values, 1, Len(values) - 1)))

\* the values recorded, in tenths: 0.2, 0.3, 0.7, 1 and 2
TrendValues == {2, 3, 7, 10, 20}

\* the numbers parseFloat reads from the decimal texts of the values
ParsedValues(values) == [i \in 1..Len(values) |-> Tenths(values[i])]

RecordMetricTrend ==
  /\ returned = NoResult
  /\ returned' = [trend |-> TrendAfter(ParsedValues(args.values))]
  /\ UNCHANGED <<pipelineVars, args>>

InitTrend ==
  /\ InitRuns /\ store = << >>
  /\ args \in {[values |-> values] : values \in UNION {[1..n -> TrendValues] : n \in 3..MaxHistory}}
  /\ returned = NoResult

NextTrend == RecordMetricTrend

SpecTrend == InitTrend /\ [][NextTrend]_vars

-----------------------------------------------------------------------------
(* CorrelationAnalyzer: the Pearson coefficient *)

MaxLength == 3

\* values.reduce((sum, v, i) => sum + term(i), 0)
RECURSIVE FloatSum(_, _)
FloatSum(terms, n) ==
  IF n = 0 THEN FloatZero
  ELSE CHOOSE out \in {FloatAdd(sum, terms[n]) : sum \in {FloatSum(terms, n - 1)}} : TRUE

\* a value of a vector is a number, or a string when the column holds one
IsText(value) == "t" \in DOMAIN value

\* a number used in a product or a difference: ToNumber of a string
NumberOf(value) ==
  IF ~IsText(value) THEN value
  ELSE IF ToNumber(value).nan THEN FloatNaN
  ELSE FloatOf(ToNumber(value).v)

RECURSIVE NatOfBig(_)
NatOfBig(a) == IF Len(a) = 0 THEN 0 ELSE a[1] + Limb * NatOfBig(Tail(a))

\* String(value) of a string or of an integer (the numbers added to a string in
\* the model are integers)
TextOf(value) ==
  IF IsText(value) THEN value.s
  ELSE (IF value.sign < 0 THEN "-" ELSE "")
         \o NatToString(NatOfBig(IF value.e >= 0 THEN Shl(value.m, value.e)
                                 ELSE Shr(value.m, -value.e)))

\* a + b: the sum of two numbers, the concatenation when one of them is a string
JsAdd(a, b) ==
  IF IsText(a) \/ IsText(b) THEN Str(TextOf(a) \o TextOf(b)) ELSE FloatAdd(a, b)

\* x.reduce((a, b) => a + b, 0)
RECURSIVE JsSum(_, _)
JsSum(terms, n) ==
  IF n = 0 THEN FloatZero
  ELSE CHOOSE out \in {JsAdd(sum, terms[n]) : sum \in {JsSum(terms, n - 1)}} : TRUE

\* the sums of calculatePearsonCorrelation
PearsonSums(x, y) ==
  LET n == Len(x)
  IN  [n  |-> n,
       x  |-> NumberOf(JsSum(x, n)),
       y  |-> NumberOf(JsSum(y, n)),
       xy |-> FloatSum([i \in 1..n |-> FloatMul(NumberOf(x[i]), NumberOf(y[i]))], n),
       x2 |-> FloatSum([i \in 1..n |-> FloatMul(NumberOf(x[i]), NumberOf(x[i]))], n),
       y2 |-> FloatSum([i \in 1..n |-> FloatMul(NumberOf(y[i]), NumberOf(y[i]))], n)]

\* denominator === 0 ? 0 : numerator / denominator
PearsonOf(sums) ==
  LET count == FloatOf(sums.n)
      numerator == FloatSub(FloatMul(count, sums.xy), FloatMul(sums.x, sums.y))
      denominator ==
        FloatSqrt(FloatMul(FloatSub(FloatMul(count, sums.x2), FloatMul(sums.x, sums.x)),
                           FloatSub(FloatMul(count, sums.y2), FloatMul(sums.y, sums.y))))
  IN  CHOOSE out \in {IF ~d.nan /\ d.sign = 0 THEN FloatZero ELSE FloatDiv(numerator, d)
                       : d \in {denominator}} : TRUE

\* calculatePearsonCorrelation (a value that is read several times is bound
\* with \in, so that it is computed once)
CalculatePearsonCorrelation(xs, ys) ==
  CHOOSE out \in
    {IF Len(v.x) # Len(v.y) \/ Len(v.x) = 0 THEN FloatZero
     ELSE CHOOSE coefficient \in {PearsonOf(sums) : sums \in {PearsonSums(v.x, v.y)}} : TRUE
       : v \in {[x |-> xs, y |-> ys]}} : TRUE

\* the numbers the vectors are drawn from: 1, 2 and 0.3
VectorValues == {FloatOf(1), FloatOf(2), Tenths(3)}

CalculatePearsonCorrelationCall ==
  /\ returned = NoResult
  /\ returned' = [correlation |-> CalculatePearsonCorrelation(args.x, args.y)]
  /\ UNCHANGED <<pipelineVars, args>>

InitPearson ==
  /\ InitRuns /\ store = << >>
  /\ \E n \in 0..MaxLength :
       args \in {[x |-> x, y |-> y] : x \in [1..n -> VectorValues], y \in [1..n -> VectorValues]}
  /\ returned = NoResult

NextPearson == CalculatePearsonCorrelationCall

SpecPearson == InitPearson /\ [][NextPearson]_vars

-----------------------------------------------------------------------------
(* CorrelationAnalyzer: correlations between two datasets *)

MaxRows == 3
MaxDatasets == 3

Null == [t |-> "null"]

\* 1 day tolerance
Tolerance == 24 * 60 * 60 * 1000

\* Date.parse of a date-only string of January 1970, in milliseconds since the
\* epoch (TLC's integers end on the 25th); the other strings of the pool are
\* not dates
DateParse(s) ==
  IF Len(s) = 10 /\ SubSeq(s, 1, 8) = "1970-01-" /\ DigitRun(s, 9) = 2
       /\ DigitsValue(s, 9, 10) \in 1..31
  THEN Number((DigitsValue(s, 9, 10) - 1) * Tolerance)
  ELSE NaN

\* new Date(value).getTime()
DateTime(cell) ==
  CASE cell.t = "number" -> Number(cell.v)
    [] cell.t = "string" -> DateParse(cell.s)
    [] cell.t = "null" -> Number(0)
    [] OTHER -> NaN

\* isNaN(value)
IsNaN(cell) ==
  CASE cell.t = "number" -> FALSE
    [] cell.t = "null" -> FALSE
    [] OTHER -> ToNumber(cell).nan

ColumnValues(data, col) == [i \in 1..Len(data) |-> Field(data[i], col)]

\* isDateColumn (no dataset of the pool has more than 10 rows)
IsDateColumn(data, col) ==
  \E i \in 1..Min2(Len(data), 10) :
    LET value == Field(data[i], col)
    IN  value # Null /\ value # Undefined /\ ~DateTime(value).nan

\* the values of a column as calculatePearsonCorrelation gets them: numbers, and
\* the strings that isNaN lets through
Numbers(cells) ==
  [i \in 1..Len(cells) |-> IF cells[i].t = "string" THEN cells[i] ELSE FloatOf(cells[i].v)]

\* items.sort((a, b) => a.date.getTime() - b.date.getTime()): stable
SortByDate(items) ==
  LET place(i) == 1 + Cardinality({j \in 1..Len(items) :
                        \/ items[j].date < items[i].date
                        \/ items[j].date = items[i].date /\ j < i})
  IN  [k \in 1..Len(items) |-> items[CHOOSE i \in 1..Len(items) : place(i) = k]]

\* one dataset's series: the rows with a date and a value, sorted by date
TimeSeries(data, dateCol, valueCol) ==
  LET items == [i \in 1..Len(data) |->
                 [date |-> DateTime(Field(data[i], dateCol)), value |-> Field(data[i], valueCol)]]
      kept == SelectSeq(items, LAMBDA item :
                ~item.date.nan /\ item.value # Null /\ ~IsNaN(item.value))
  IN  CHOOSE out \in {SortByDate([i \in 1..Len(all) |->
                                     [date |-> all[i].date.v, value |-> all[i].value]])
                       : all \in {kept}} : TRUE

\* alignTimeSeries: every item of the first series with the first item of the
\* second that is at most a day away
AlignTimeSeries(series1, series2) ==
  SeqConcat([i \in 1..Len(series1) |->
    LET matching == {j \in 1..Len(series2) :
                       Abs(series1[i].date - series2[j].date) <= Tolerance}
    IN  IF matching = {} THEN << >>
        ELSE <<[date |-> series1[i].date, value1 |-> series1[i].value,
                value2 |-> series2[SetMin(matching)].value]>>])

\* calculateTimeBasedCorrelation that asks for 2 aligned points
CalculateTimeBasedCorrelationTwoPoints(data1, data2, dateCol1, dateCol2, valueCol1, valueCol2) ==
  LET Correlated(alignedData) ==
        IF Len(alignedData) < 2 THEN Null
        ELSE CalculatePearsonCorrelation(
               Numbers([i \in 1..Len(alignedData) |-> alignedData[i].value1]),
               Numbers([i \in 1..Len(alignedData) |-> alignedData[i].value2]))
      Aligned(timeSeries1, timeSeries2) ==
        IF Len(timeSeries1) = 0 \/ Len(timeSeries2) = 0 THEN Null
        ELSE CHOOSE out \in {Correlated(alignedData)
                              : alignedData \in {AlignTimeSeries(timeSeries1, timeSeries2)}} : TRUE
  IN  CHOOSE out \in {Aligned(series[1], series[2])
                       : series \in {<<TimeSeries(data1, dateCol1, valueCol1),
                                       TimeSeries(data2, dateCol2, valueCol2)>>}} : TRUE

\* calculateTimeBasedCorrelation
CalculateTimeBasedCorrelation(data1, data2, dateCol1, dateCol2, valueCol1, valueCol2) ==
  LET Correlated(alignedData) ==
        IF Len(alignedData) < 3 THEN Null
        ELSE CalculatePearsonCorrelation(
               Numbers([i \in 1..Len(alignedData) |-> alignedData[i].value1]),
               Numbers([i \in 1..Len(alignedData) |-> alignedData[i].value2]))
      Aligned(timeSeries1, timeSeries2) ==
        IF Len(timeSeries1) = 0 \/ Len(timeSeries2) = 0 THEN Null
        ELSE CHOOSE out \in {Correlated(alignedData)
                              : alignedData \in {AlignTimeSeries(timeSeries1, timeSeries2)}} : TRUE
  IN  CHOOSE out \in {Aligned(series[1], series[2])
                       : series \in {<<TimeSeries(data1, dateCol1, valueCol1),
                                       TimeSeries(data2, dateCol2, valueCol2)>>}} : TRUE

\* calculateColumnCorrelation
CalculateColumnCorrelation(data1, data2, column) ==
  LET values1 == SelectSeq(ColumnValues(data1, column), LAMBDA v : v # Null /\ ~IsNaN(v))
      values2 == SelectSeq(ColumnValues(data2, column), LAMBDA v : v # Null /\ ~IsNaN(v))
      minLength == Min2(Len(values1), Len(values2))
  IN  IF Len(values1) = 0 \/ Len(values2) = 0 THEN Null
      ELSE CalculatePearsonCorrelation(Numbers(SubSeq(values1, 1, minLength)),
                                       Numbers(SubSeq(values2, 1, minLength)))

\* findSharedColumns
FindSharedColumns(dataset1, dataset2) ==
  SelectSeq(dataset1.columns, LAMBDA col : HasColumn(dataset2, col))

DateColumns(dataset) == SelectSeq(dataset.columns, LAMBDA col : IsDateColumn(dataset.data, col))

NumericColumns(dataset) ==
  SelectSeq(dataset.columns, LAMBDA col : dataset.columnTypes[col] = "number")

\* sharedColumns.join(', ')
RECURSIVE Join(_)
Join(names) ==
  IF Len(names) = 0 THEN ""
  ELSE IF Len(names) = 1 THEN names[1]
  ELSE names[1] \o ", " \o Join(Tail(names))

\* correlation > 0.7 ? 'strong' : correlation > 0.4 ? 'moderate' : 'weak'
Strength(correlation) ==
  IF correlation.nan THEN "weak"
  ELSE IF FloatCmp(correlation, Tenths(7)) > 0 THEN "strong"
  ELSE IF FloatCmp(correlation, Tenths(4)) > 0 THEN "moderate"
  ELSE "weak"

\* Math.min
FloatMin(a, b) ==
  IF a.nan \/ b.nan THEN FloatNaN ELSE IF FloatCmp(a, b) <= 0 THEN a ELSE b

\* the coefficients of the shared columns that are numbers in both datasets
SharedCorrelations(dataset1, dataset2, sharedColumns) ==
  LET numeric == SelectSeq(sharedColumns, LAMBDA col :
                   dataset1.columnTypes[col] = "number" /\ dataset2.columnTypes[col] = "number")
      found == [i \in 1..Len(numeric) |->
                 CalculateColumnCorrelation(dataset1.data, dataset2.data, numeric[i])]
  IN  CHOOSE out \in {SelectSeq(all, LAMBDA correlation : correlation # Null)
                       : all \in {found}} : TRUE

\* totalCorrelation / correlationCount
Average(found) == FloatDiv(FloatSum(found, Len(found)), FloatOf(Len(found)))

\* analyzeSameDomainCorrelation
AnalyzeSameDomainCorrelation(dataset1, dataset2) ==
  LET sharedColumns == FindSharedColumns(dataset1, dataset2)
      Result(avgCorrelation) ==
        [dataset1 |-> dataset1.name,
         dataset2 |-> dataset2.name,
         correlation |-> avgCorrelation,
         sharedColumns |-> sharedColumns,
         insight |-> dataset1.name \o " and " \o dataset2.name \o " show "
                       \o Strength(avgCorrelation) \o " correlation in " \o Join(sharedColumns),
         confidence |-> FloatMin(FloatMul(avgCorrelation, Tenths(12)), FloatOf(1))]
      Averaged(found) ==
        IF Len(found) = 0 THEN Null
        ELSE CHOOSE out \in {Result(avgCorrelation) : avgCorrelation \in {Average(found)}} : TRUE
  IN  IF dataset1.domain # dataset2.domain THEN Null
      ELSE IF Len(sharedColumns) = 0 THEN Null
      ELSE CHOOSE out \in {Averaged(found)
                            : found \in {SharedCorrelations(dataset1, dataset2, sharedColumns)}} : TRUE

\* analyzeTimeBasedCorrelation
AnalyzeTimeBasedCorrelation(dataset1, dataset2) ==
  LET dateColumns1 == DateColumns(dataset1)
      dateColumns2 == DateColumns(dataset2)
      numericColumns1 == NumericColumns(dataset1)
      numericColumns2 == NumericColumns(dataset2)
      Result(correlation) ==
        IF correlation = Null THEN Null
        ELSE IF ~correlation.nan /\ FloatCmp(FloatAbs(correlation), Tenths(3)) < 0 THEN Null
        ELSE [dataset1 |-> dataset1.name,
              dataset2 |-> dataset2.name,
              correlation |-> FloatAbs(correlation),
              sharedColumns |-> <<"time">>,
              insight |-> dataset1.name \o " and " \o dataset2.name \o " show "
                            \o Strength(correlation) \o " temporal correlation",
              confidence |-> FloatMin(FloatMul(FloatAbs(correlation), Tenths(11)), FloatOf(1))]
  IN  IF Len(dateColumns1) = 0 \/ Len(dateColumns2) = 0 THEN Null
      ELSE IF Len(numericColumns1) = 0 \/ Len(numericColumns2) = 0 THEN Null
      ELSE CHOOSE out \in
             {Result(correlation)
                : correlation \in {CalculateTimeBasedCorrelation(dataset1.data, dataset2.data,
                    dateColumns1[1], dateColumns2[1], numericColumns1[1], numericColumns2[1])}} : TRUE

\* analyzeSharedColumnCorrelation
AnalyzeSharedColumnCorrelation(dataset1, dataset2) ==
  LET sharedColumns == FindSharedColumns(dataset1, dataset2)
      Result(avgCorrelation) ==
        IF ~avgCorrelation.nan /\ FloatCmp(FloatAbs(avgCorrelation), Tenths(2)) < 0 THEN Null
        ELSE [dataset1 |-> dataset1.name,
              dataset2 |-> dataset2.name,
              correlation |-> FloatAbs(avgCorrelation),
              sharedColumns |-> sharedColumns,
              insight |-> dataset1.name \o " and " \o dataset2.name \o " correlate in "
                            \o Join(sharedColumns) \o " with " \o Strength(avgCorrelation)
                            \o " relationship",
              confidence |-> FloatMin(FloatMul(FloatAbs(avgCorrelation), Tenths(11)), FloatOf(1))]
      Averaged(found) ==
        IF Len(found) = 0 THEN Null
        ELSE CHOOSE out \in {Result(avgCorrelation) : avgCorrelation \in {Average(found)}} : TRUE
  IN  IF Len(sharedColumns) = 0 THEN Null
      ELSE CHOOSE out \in {Averaged(found)
                            : found \in {SharedCorrelations(dataset1, dataset2, sharedColumns)}} : TRUE

\* (a, b) => b.correlation - a.correlation; a difference that is NaN is no
\* number and reads as 0
CorrelationCompare(a, b) ==
  IF a.correlation.nan \/ b.correlation.nan THEN 0
  ELSE FloatCmp(b.correlation, a.correlation)

InsertByCorrelation(sorted, x) ==
  LET k == SetMax({0} \cup {i \in 1..Len(sorted) : CorrelationCompare(sorted[i], x) <= 0})
  IN  SubSeq(sorted, 1, k) \o <<x>> \o SubSeq(sorted, k + 1, Len(sorted))

RECURSIVE InsertionSortByCorrelation(_)
InsertionSortByCorrelation(items) ==
  IF Len(items) = 0 THEN << >>
  ELSE InsertByCorrelation(InsertionSortByCorrelation(SubSeq(items, 1, Len(items) - 1)),
                           items[Len(items)])

RECURSIVE BinaryPlaceByCorrelation(_, _, _, _)
BinaryPlaceByCorrelation(sorted, x, left, right) ==
  IF left >= right THEN left
  ELSE LET mid == left + ((right - left) \div 2)
       IN  IF CorrelationCompare(x, sorted[mid + 1]) < 0
           THEN BinaryPlaceByCorrelation(sorted, x, left, mid)
           ELSE BinaryPlaceByCorrelation(sorted, x, mid + 1, right)

RECURSIVE BinaryInsertionSortByCorrelation(_)
BinaryInsertionSortByCorrelation(items) ==
  IF Len(items) = 0 THEN << >>
  ELSE LET sorted == BinaryInsertionSortByCorrelation(SubSeq(items, 1, Len(items) - 1))
           x == items[Len(items)]
           k == BinaryPlaceByCorrelation(sorted, x, 0, Len(sorted))
       IN  SubSeq(sorted, 1, k) \o <<x>> \o SubSeq(sorted, k + 1, Len(sorted))

\* correlations.sort((a, b) => b.correlation - a.correlation) on a short array:
\* a stable insertion sort; the two ways of inserting agree unless a NaN makes
\* the comparator inconsistent, and then the order is the engine's choice
SortByCorrelation(items) ==
  {InsertionSortByCorrelation(items), BinaryInsertionSortByCorrelation(items)}

\* the pairs i < j in the order of the two loops
RECURSIVE PairsFrom(_, _, _)
PairsFrom(i, j, n) ==
  IF i >= n THEN << >>
  ELSE IF j > n THEN PairsFrom(i + 1, i + 2, n)
  ELSE <<<<i, j>>>> \o PairsFrom(i, j + 1, n)

\* findCorrelations with the inner loop over every other dataset, j = 0 .. length
FindCorrelationsEveryOrder(datasets) ==
  LET pairs == SeqConcat([i \in 1..Len(datasets) |->
                 SeqConcat([j \in 1..Len(datasets) |->
                   IF i = j THEN << >> ELSE <<<<i, j>>>>])])
      found == [p \in 1..Len(pairs) |->
                 LET dataset1 == datasets[pairs[p][1]]
                     dataset2 == datasets[pairs[p][2]]
                 IN  << AnalyzeSameDomainCorrelation(dataset1, dataset2),
                        AnalyzeTimeBasedCorrelation(dataset1, dataset2),
                        AnalyzeSharedColumnCorrelation(dataset1, dataset2) >>]
  IN  UNION {SortByCorrelation(
                SelectSeq(SeqConcat(all), LAMBDA correlation : correlation # Null))
              : all \in {found}}

\* findCorrelations
FindCorrelations(datasets) ==
  LET pairs == PairsFrom(1, 2, Len(datasets))
      found == [p \in 1..Len(pairs) |->
                 LET dataset1 == datasets[pairs[p][1]]
                     dataset2 == datasets[pairs[p][2]]
                 IN  << AnalyzeSameDomainCorrelation(dataset1, dataset2),
                        AnalyzeTimeBasedCorrelation(dataset1, dataset2),
                        AnalyzeSharedColumnCorrelation(dataset1, dataset2) >>]
  IN  UNION {SortByCorrelation(
                SelectSeq(SeqConcat(all), LAMBDA correlation : correlation # Null))
              : all \in {found}}

DatasetMetadata(name, domain, columns, columnTypes, data) ==
  [name |-> name, domain |-> domain, columns |-> columns, columnTypes |-> columnTypes,
   data |-> data]

DateValueTypes == [date |-> "string", value |-> "number"]

\* first datasets: three days in a row; two days two days apart; three rows of
\* which one has no date and one has no date that parses
FirstDatasets ==
  { DatasetMetadata("runs", "health", <<"date", "value">>, DateValueTypes,
      << Row2("date", Str("1970-01-01"), "value", Num(1)),
         Row2("date", Str("1970-01-02"), "value", Num(2)),
         Row2("date", Str("1970-01-03"), "value", Num(3)) >>),
    DatasetMetadata("weight", "health", <<"date", "value">>, DateValueTypes,
      << Row2("date", Str("1970-01-03"), "value", Num(2)),
         Row2("date", Str("1970-01-01"), "value", Num(1)) >>),
    DatasetMetadata("steps", "sports", <<"when", "score">>,
      [when |-> "string", score |-> "number"],
      << Row2("when", Str("1970-01-04"), "score", Num(3)),
         Row2("when", Str("soon"), "score", Num(2)),
         Row2("when", Null, "score", Num(4)) >>) }

\* the rows of the second dataset
RowPool ==
  << Row2("date", Str("1970-01-01"), "value", Num(1)),
     Row2("date", Str("1970-01-03"), "value", Num(2)),
     Row2("date", Str("soon"), "value", Num(3)),
     Row2("date", Str("1970-01-02"), "value", Null) >>

SecondDatasets ==
  UNION {{DatasetMetadata("sleep", "health", <<"date", "value">>, DateValueTypes,
            [i \in 1..n |-> RowPool[chosen[i]]]) : chosen \in [1..n -> 1..Len(RowPool)]}
         : n \in 0..MaxRows}

FindCorrelationsCall ==
  /\ returned = NoResult
  /\ \E correlations \in FindCorrelations(args.datasets) :
       returned' = [correlations |-> correlations]
  /\ UNCHANGED <<pipelineVars, args>>

InitCorrelate ==
  /\ InitRuns /\ store = << >>
  /\ args \in {[datasets |-> <<first, second>>] : first \in FirstDatasets, second \in SecondDatasets}
  /\ returned = NoResult

NextCorrelate == FindCorrelationsCall

SpecCorrelate == InitCorrelate /\ [][NextCorrelate]_vars

\* a health dataset over the three days of runs, its values in another order
SleepDataset ==
  DatasetMetadata("sleep", "health", <<"date", "value">>, DateValueTypes,
    << Row2("date", Str("1970-01-01"), "value", Num(3)),
       Row2("date", Str("1970-01-02"), "value", Num(1)),
       Row2("date", Str("1970-01-03"), "value", Num(2)) >>)

\* a health dataset over the same days read from a JSON file: its column is typed
\* by the number of its first row, the other rows hold their numbers as strings
LapsDataset ==
  DatasetMetadata("laps", "health", <<"date", "value">>, DateValueTypes,
    << Row2("date", Str("1970-01-01"), "value", Num(1)),
       Row2("date", Str("1970-01-02"), "value", Str("2")),
       Row2("date", Str("1970-01-03"), "value", Str("3")) >>)

\* the lists of at most MaxDatasets datasets, a dataset possibly listed twice
DatasetLists ==
  UNION { [1..n -> {d \in FirstDatasets : d.name # "weight"} \cup {SleepDataset, LapsDataset}]
            : n \in 0..MaxDatasets }

InitPairs ==
  /\ InitRuns /\ store = << >>
  /\ args \in {[datasets |-> datasets] : datasets \in DatasetLists}
  /\ returned = NoResult

SpecPairs == InitPairs /\ [][NextCorrelate]_vars

-----------------------------------------------------------------------------
(* NLPProcessor: rule-based extraction of metrics *)

MaxWords == 3

IsLetter(c) ==
  \E i \in 1..26 : SubSeq(UpperCase, i, i) = c \/ SubSeq(LowerCase, i, i) = c

\* \s (a space is the only white space in the texts of the pool)
IsSpace(c) == c = " "

RECURSIVE LetterRun(_, _)
LetterRun(s, i) ==
  IF i <= Len(s) /\ IsLetter(SubSeq(s, i, i)) THEN 1 + LetterRun(s, i + 1) ELSE 0

RECURSIVE SpaceRun(_, _)
SpaceRun(s, i) ==
  IF i <= Len(s) /\ IsSpace(SubSeq(s, i, i)) THEN 1 + SpaceRun(s, i + 1) ELSE 0

\* the length of what (\d+(?:\.\d+)?) matches at position i, 0 when nothing
NumeralRun(s, i) ==
  LET whole == DigitRun(s, i)
      fraction == IF i + whole <= Len(s) /\ SubSeq(s, i + whole, i + whole) = "."
                  THEN DigitRun(s, i + whole + 1) ELSE 0
  IN  IF whole = 0 THEN 0 ELSE IF fraction = 0 THEN whole ELSE whole + 1 + fraction

RECURSIVE TrimZeros(_)
TrimZeros(digits) ==
  IF Len(digits) > 0 /\ SubSeq(digits, Len(digits), Len(digits)) = "0"
  THEN TrimZeros(SubSeq(digits, 1, Len(digits) - 1)) ELSE digits

\* parseFloat of a numeral: the whole part and the digits after the point
ParseDecimal(numeral) ==
  LET whole == DigitRun(numeral, 1)
  IN  [whole |-> DigitsValue(numeral, 1, whole),
       fraction |-> TrimZeros(SubSeq(numeral, whole + 2, Len(numeral)))]

\* `${value}`
FormatDecimal(value) ==
  NatToString(value.whole) \o (IF value.fraction = "" THEN "" ELSE "." \o value.fraction)

IsZero(value) == value.whole = 0 /\ value.fraction = ""

NoMatch == [found |-> FALSE]

\* /(\d+(?:\.\d+)?)\s+([a-zA-Z]+)/ at position p
MetricPatternAt(s, p) ==
  LET numeral == NumeralRun(s, p)
      spaces == SpaceRun(s, p + numeral)
      letters == LetterRun(s, p + numeral + spaces)
  IN  IF numeral > 0 /\ spaces > 0 /\ letters > 0
      THEN [found |-> TRUE, from |-> p, to |-> p + numeral + spaces + letters - 1,
            numeral |-> SubSeq(s, p, p + numeral - 1),
            word |-> SubSeq(s, p + numeral + spaces, p + numeral + spaces + letters - 1)]
      ELSE NoMatch

\* the alternatives of contextPattern, in order; all but the last take an s
ContextWords ==
  << "goal", "assist", "mile", "kilometer", "minute", "hour", "day", "week", "month",
     "year", "pound", "kilogram", "point", "score", "percent" >>

\* the length of what (?:goals?|...|percent) matches at position q, ignoring case
ContextWordRun(s, q) ==
  LET matching == {k \in 1..Len(ContextWords) :
                     /\ q + Len(ContextWords[k]) - 1 <= Len(s)
                     /\ ToLowerCase(SubSeq(s, q, q + Len(ContextWords[k]) - 1)) = ContextWords[k]}
      k == SetMin(matching)
      after == q + Len(ContextWords[k])
  IN  IF matching = {} THEN 0
      ELSE IF k < Len(ContextWords) /\ after <= Len(s)
                /\ ToLowerCase(SubSeq(s, after, after)) = "s"
      THEN Len(ContextWords[k]) + 1
      ELSE Len(ContextWords[k])

\* contextPattern at position p
ContextPatternAt(s, p) ==
  LET numeral == NumeralRun(s, p)
      spaces == SpaceRun(s, p + numeral)
      word == ContextWordRun(s, p + numeral + spaces)
  IN  IF numeral > 0 /\ word > 0
      THEN [found |-> TRUE, from |-> p, to |-> p + numeral + spaces + word - 1,
            numeral |-> SubSeq(s, p, p + numeral - 1),
            context |-> ToLowerCase(SubSeq(s, p, p + numeral + spaces + word - 1))]
      ELSE NoMatch

\* the matches of metricPattern.exec(text) from lastIndex on, in order
RECURSIVE MetricMatches(_, _)
MetricMatches(s, lastIndex) ==
  LET starts == {p \in lastIndex..Len(s) : MetricPatternAt(s, p).found}
  IN  IF starts = {} THEN << >>
      ELSE CHOOSE out \in {<<match>> \o MetricMatches(s, match.to + 1)
                            : match \in {MetricPatternAt(s, SetMin(starts))}} : TRUE

\* the matches of contextPattern.exec(text) from lastIndex on, in order
RECURSIVE ContextMatches(_, _)
ContextMatches(s, lastIndex) ==
  LET starts == {p \in lastIndex..Len(s) : ContextPatternAt(s, p).found}
  IN  IF starts = {} THEN << >>
      ELSE CHOOSE out \in {<<match>> \o ContextMatches(s, match.to + 1)
                            : match \in {ContextPatternAt(s, SetMin(starts))}} : TRUE

\* unitMap (its key '%' is no word of letters)
UnitMap ==
  [ goal |-> "goals", goals |-> "goals", assist |-> "assists", assists |-> "assists",
    mile |-> "miles", miles |-> "miles", km |-> "kilometers", kilometer |-> "kilometers",
    kilometers |-> "kilometers", minute |-> "minutes", minutes |-> "minutes",
    hour |-> "hours", hours |-> "hours", day |-> "days", days |-> "days",
    week |-> "weeks", weeks |-> "weeks", month |-> "months", months |-> "months",
    year |-> "years", years |-> "years", pound |-> "pounds", pounds |-> "pounds",
    kg |-> "kilograms", kilogram |-> "kilograms", kilograms |-> "kilograms",
    point |-> "points", points |-> "points", score |-> "score", scores |-> "score",
    percent |-> "percentage", percentage |-> "percentage" ]

\* unitMap[unit] || unit (no word of the pool is a property every object has)
MetricName(unit) == IF unit \in DOMAIN UnitMap THEN UnitMap[unit] ELSE unit

\* metrics as the sequence of its entries, in the order the keys were added
HasMetric(metrics, name) == \E i \in 1..Len(metrics) : metrics[i].name = name

MetricValue(metrics, name) ==
  metrics[CHOOSE i \in 1..Len(metrics) : metrics[i].name = name].value

\* metrics[name] = value
SetMetric(metrics, name, value) ==
  IF HasMetric(metrics, name)
  THEN [i \in 1..Len(metrics) |->
         IF metrics[i].name = name THEN [name |-> name, value |-> value] ELSE metrics[i]]
  ELSE Append(metrics, [name |-> name, value |-> value])

\* the first loop of extractMetrics over its matches
RECURSIVE FirstPass(_, _)
FirstPass(matches, metrics) ==
  IF Len(matches) = 0 THEN metrics
  ELSE CHOOSE out \in
         {FirstPass(Tail(matches), next)
            : next \in {SetMetric(metrics, MetricName(ToLowerCase(matches[1].word)),
                                  ParseDecimal(matches[1].numeral))}} : TRUE

\* the names the second loop assigns for a context, in the order of its tests
ContextNames ==
  << <<"goal", "goals">>, <<"assist", "assists">>, <<"mile", "miles">>,
     <<"kilometer", "kilometers">>, <<"minute", "minutes">>, <<"hour", "hours">>,
     <<"day", "days">>, <<"week", "weeks">>, <<"month", "months">>, <<"year", "years">>,
     <<"pound", "pounds">>, <<"kilogram", "kilograms">>, <<"point", "points">>,
     <<"score", "score">>, <<"percent", "percentage">> >>

RECURSIVE SetContextMetrics(_, _, _, _)
SetContextMetrics(metrics, context, value, k) ==
  IF k > Len(ContextNames) THEN metrics
  ELSE CHOOSE out \in
         {SetContextMetrics(next, context, value, k + 1)
            : next \in {IF Includes(context, ContextNames[k][1])
                        THEN SetMetric(metrics, ContextNames[k][2], value)
                        ELSE metrics}} : TRUE

\* the second loop of extractMetrics over its matches
RECURSIVE SecondPass(_, _)
SecondPass(matches, metrics) ==
  IF Len(matches) = 0 THEN metrics
  ELSE CHOOSE out \in
         {SecondPass(Tail(matches), next)
            : next \in {SetContextMetrics(metrics, matches[1].context,
                                          ParseDecimal(matches[1].numeral), 1)}} : TRUE

\* extractMetrics
ExtractMetrics(text) ==
  CHOOSE out \in {SecondPass(passes[2], FirstPass(passes[1], << >>))
                   : passes \in {<<MetricMatches(text, 1), ContextMatches(text, 1)>>}} : TRUE

\* texts: up to MaxWords pieces of a pool with a space between them
RECURSIVE JoinWords(_)
JoinWords(words) ==
  IF Len(words) = 0 THEN ""
  ELSE IF Len(words) = 1 THEN words[1]
  ELSE words[1] \o " " \o JoinWords(Tail(words))

TextsOf(pool) ==
  UNION {{JoinWords([i \in 1..n |-> pool[chosen[i]]]) : chosen \in [1..n -> 1..Len(pool)]}
         : n \in 0..MaxWords}

MetricPhrases ==
  << "5 kilometers", "3 km", "2 goals", "7 Miles", "1.50 miles", "4 goalkeepers" >>

ExtractMetricsCall ==
  /\ returned = NoResult
  /\ returned' = [metrics |-> ExtractMetrics(args.text)]
  /\ UNCHANGED <<pipelineVars, args>>

InitExtract ==
  /\ InitRuns /\ store = << >>
  /\ args \in {[text |-> text] : text \in TextsOf(MetricPhrases)}
  /\ returned = NoResult

NextExtract == ExtractMetricsCall

SpecExtract == InitExtract /\ [][NextExtract]_vars

-----------------------------------------------------------------------------
(* NLPProcessor: processText when Ollama does not answer *)

\* buildExtractionPrompt: the prompt before and after the text
PromptHead ==
  "You are an expert data analyst. Extract structured data from this text and return it as JSON.\n\nText: \""

PromptTail ==
  "\"\n\nExtract the following information:\n1. NUMBERS: Any numerical values with their context (e.g., \"2 goals\" -> {\"goals\": 2})\n2. METRICS: Performance metrics, measurements, scores\n3. CATEGORIES: Group related items (e.g., \"goals, assists\" -> \"sports_performance\")\n4. ENTITIES: People, places, objects, concepts mentioned\n5. SENTIMENT: Overall tone (positive/negative/neutral)\n6. IMPROVEMENT_AREAS: Things that need work or improvement\n\nReturn ONLY valid JSON in this exact format:\n{\n  \"metrics\": {\"metric_name\": number},\n  \"categories\": {\"category_name\": [\"item1\", \"item2\"]},\n  \"entities\": {\"entity_type\": [\"entity1\", \"entity2\"]},\n  \"sentiment\": \"positive|negative|neutral\",\n  \"confidence\": 0.95,\n  \"structuredData\": {\"key\": \"value\"}\n}\n\nBe precise and extract all relevant information."

BuildExtractionPrompt(text) == PromptHead \o text \o PromptTail

\* prompt.match(/Text: "([^"]+)"/): what the group captures, '' without a match
PromptText(prompt) ==
  LET opener == "Text: \""
      quotes == {i \in 1..Len(prompt) : SubSeq(prompt, i, i) = "\""}
      closing(p) == SetMin({i \in quotes : i >= p + Len(opener)})
      starts == {p \in 1..(Len(prompt) - Len(opener)) :
                   /\ SubSeq(prompt, p, p + Len(opener) - 1) = opener
                   /\ \E i \in quotes : i >= p + Len(opener)
                   /\ closing(p) > p + Len(opener)}
  IN  IF starts = {} THEN ""
      ELSE SubSeq(prompt, SetMin(starts) + Len(opener), closing(SetMin(starts)) - 1)

FoodWords ==
  << "lunch", "dinner", "breakfast", "rice", "curry", "egg", "meal", "cook", "kitchen",
     "dish", "spice", "vegetable", "delicious", "taste", "menu", "phenomenal", "recipe",
     "food", "snack", "eat", "eating", "plate", "flavor", "sambar", "thenga", "chutney",
     "cooking", "prepared" >>

HomeWords ==
  << "home", "family", "house", "room", "living", "kitchen", "clean", "organize",
     "decorate", "relax", "comfort", "chores", "sofa", "bed", "living room", "dining",
     "apartment", "residence", "stay", "household", "domestic", "tidy", "laundry", "sweep",
     "mop", "vacuum" >>

BodyParts ==
  << "foot", "feet", "hand", "hands", "leg", "legs", "arm", "arms", "head", "eye", "eyes" >>

Skills ==
  << "goal", "assist", "run", "kick", "pass", "shoot", "dribble" >>

Activities ==
  << "run", "exercise", "train", "practice", "play" >>

Measurements ==
  << "mile", "kilometer", "minute", "hour", "day" >>

TimePeriods ==
  << "today", "yesterday", "tomorrow", "week", "month", "year" >>

FoodItems ==
  << "rice", "curry", "egg", "thenga", "sambar", "chutney", "dal", "roti", "bread",
     "vegetable", "salad", "chicken", "fish", "meat", "paneer", "tofu", "soup", "noodle",
     "pasta", "spice", "pepper", "salt", "oil", "ghee", "butter", "milk", "yogurt", "curd",
     "fruit", "banana", "apple", "orange", "mango", "grape", "berry", "snack", "sweet",
     "dessert", "ice cream", "cake", "cookie", "biscuit", "juice", "tea", "coffee" >>

HomeItems ==
  << "sofa", "bed", "table", "chair", "lamp", "couch", "curtain", "carpet", "rug",
     "pillow", "blanket", "sheet", "wardrobe", "closet", "drawer", "kitchen", "sink",
     "stove", "oven", "fridge", "microwave", "dishwasher", "laundry", "washing machine",
     "dryer", "vacuum", "broom", "mop", "bucket", "towel", "mirror", "toilet", "shower",
     "bathtub", "door", "window", "balcony", "garden", "yard", "garage", "fence", "gate",
     "roof", "wall", "floor", "ceiling", "fan", "ac", "heater", "fireplace" >>

PositiveWords ==
  << "good", "great", "excellent", "amazing", "fantastic", "perfect", "improved",
     "better" >>

NegativeWords ==
  << "bad", "poor", "terrible", "awful", "worse", "needs", "problem", "issue" >>

\* words.some(word => lowerText.includes(word))
IncludesSome(lowerText, words) == \E i \in 1..Len(words) : Includes(lowerText, words[i])

\* the words of a list that the text includes, in the order of the list
IncludedOf(lowerText, words) == SelectSeq(words, LAMBDA word : Includes(lowerText, word))

PushIf(condition, item) == IF condition THEN <<item>> ELSE << >>

CategoriesOf(lowerText) ==
  [ sports_performance |->
      PushIf(IncludesSome(lowerText, <<"goal", "assist", "score", "point">>),
             "performance_metrics"),
    health_metrics |->
      PushIf(IncludesSome(lowerText, <<"mile", "kilometer", "run", "exercise">>),
             "fitness_tracking"),
    improvement_areas |->
      PushIf(IncludesSome(lowerText, <<"need", "better", "improve", "work on">>),
             "skill_development"),
    activities |->
      PushIf(IncludesSome(lowerText, <<"run", "exercise", "train", "practice">>),
             "physical_activity"),
    measurements |->
      PushIf(IncludesSome(lowerText, <<"mile", "kilometer", "minute", "hour">>),
             "distance_time"),
    food |-> PushIf(IncludesSome(lowerText, FoodWords), "meal"),
    home |-> PushIf(IncludesSome(lowerText, HomeWords), "home_life") ]

\* categorizeContent
CategorizeContent(text) ==
  CHOOSE out \in {CategoriesOf(lowerText) : lowerText \in {ToLowerCase(text)}} : TRUE

EntitiesOf(lowerText) ==
  [ body_parts |-> IncludedOf(lowerText, BodyParts),
    skills |-> IncludedOf(lowerText, Skills),
    activities |-> IncludedOf(lowerText, Activities),
    measurements |-> IncludedOf(lowerText, Measurements),
    time_periods |-> IncludedOf(lowerText, TimePeriods),
    food_items |-> IncludedOf(lowerText, FoodItems),
    home_items |-> IncludedOf(lowerText, HomeItems) ]

\* extractEntities
ExtractEntities(text) ==
  CHOOSE out \in {EntitiesOf(lowerText) : lowerText \in {ToLowerCase(text)}} : TRUE

\* the places of the text where the word begins
PlacesOf(lowerText, word) ==
  {i \in 1..(Len(lowerText) - Len(word) + 1) : SubSeq(lowerText, i, i + Len(word) - 1) = word}

\* the sentiment with every occurrence of a word adding to the score
SentimentOfOccurrences(lowerText) ==
  LET positiveScore == SumOver([i \in 1..Len(PositiveWords) |->
                                 Cardinality(PlacesOf(lowerText, PositiveWords[i]))],
                               1..Len(PositiveWords))
      negativeScore == SumOver([i \in 1..Len(NegativeWords) |->
                                 Cardinality(PlacesOf(lowerText, NegativeWords[i]))],
                               1..Len(NegativeWords))
  IN  IF positiveScore > negativeScore THEN "positive"
      ELSE IF negativeScore > positiveScore THEN "negative"
      ELSE "neutral"

SentimentOf(lowerText) ==
  LET positiveScore == Len(IncludedOf(lowerText, PositiveWords))
      negativeScore == Len(IncludedOf(lowerText, NegativeWords))
  IN  IF positiveScore > negativeScore THEN "positive"
      ELSE IF negativeScore > positiveScore THEN "negative"
      ELSE "neutral"

\* analyzeSentiment
AnalyzeSentiment(text) ==
  CHOOSE out \in {SentimentOf(lowerText) : lowerText \in {ToLowerCase(text)}} : TRUE

\* createStructuredData
CreateStructuredData(text, metrics, categories, entities, timestamp) ==
  [originalText |-> text, extractedMetrics |-> metrics, categories |-> categories,
   entities |-> entities, timestamp |-> timestamp, processingMethod |-> "advanced_nlp"]

\* what processLocally and extractDataWithRules build from a text; the
\* confidence in hundredths
RuleBasedData(text, confidence, timestamp) ==
  CHOOSE out \in
    {[metrics |-> found[1], categories |-> found[2], entities |-> found[3],
      sentiment |-> AnalyzeSentiment(text), confidence |-> confidence,
      structuredData |-> CreateStructuredData(text, found[1], found[2], found[3], timestamp)]
       : found \in {<<ExtractMetrics(text), CategorizeContent(text), ExtractEntities(text)>>}}
    : TRUE

\* processLocally followed by parseAIResponse: the response is the JSON text of
\* an object of finite numbers, strings and arrays of strings, which parses
\* back into that object, and none of its six fields is falsy
ProcessLocally(text, timestamp) == RuleBasedData(text, 85, timestamp)

\* extractDataWithRules
ExtractDataWithRules(text, timestamp) == RuleBasedData(text, 70, timestamp)

\* extractDataWithAI when checkOllamaAvailability is false or callOllamaAPI
\* throws: processLocally gets the prompt; when it finds no text in it, it
\* throws in callOllama's try and in its catch, and the rules get the text
ExtractDataWithAI(text, timestamp) ==
  CHOOSE out \in
    {IF prompted = "" THEN ExtractDataWithRules(text, timestamp)
     ELSE ProcessLocally(prompted, timestamp)
       : prompted \in {PromptText(BuildExtractionPrompt(text))}} : TRUE

\* extractedData.metrics.name, as a condition
MetricTruthy(metrics, name) == HasMetric(metrics, name) /\ ~IsZero(MetricValue(metrics, name))

\* NLPProcessor.detectDomain
NLPDetectDomainOf(lowerText, extractedData) ==
  IF \/ IncludesSome(lowerText, FoodWords)
     \/ Len(extractedData.entities.food_items) > 0
     \/ Len(extractedData.categories.food) > 0
  THEN "food"
  ELSE IF \/ IncludesSome(lowerText, HomeWords)
          \/ Len(extractedData.entities.home_items) > 0
          \/ Len(extractedData.categories.home) > 0
  THEN "home"
  ELSE IF \/ IncludesSome(lowerText, <<"goal", "assist", "foot", "soccer", "football">>)
          \/ MetricTruthy(extractedData.metrics, "goals")
          \/ MetricTruthy(extractedData.metrics, "assists")
  THEN "sports"
  ELSE IF \/ IncludesSome(lowerText, <<"mile", "run", "exercise", "workout">>)
          \/ MetricTruthy(extractedData.metrics, "miles")
          \/ MetricTruthy(extractedData.metrics, "kilometers")
  THEN "health"
  ELSE IF IncludesSome(lowerText, <<"task", "project", "work", "meeting">>)
  THEN "productivity"
  ELSE IF IncludesSome(lowerText, <<"dollar", "money", "cost", "price", "budget">>)
  THEN "financial"
  ELSE "general"

NLPDetectDomain(text, extractedData) ==
  CHOOSE out \in {NLPDetectDomainOf(lowerText, extractedData)
                   : lowerText \in {ToLowerCase(text)}} : TRUE

\* `${key}: ${value}` for the metrics above 0
MetricInsights(metrics) ==
  LET positive == SelectSeq(metrics, LAMBDA entry : ~IsZero(entry.value))
  IN  [i \in 1..Len(positive) |-> positive[i].name \o ": " \o FormatDecimal(positive[i].value)]

\* an insight about a metric that is there and not 0
MetricInsight(metrics, name, before, after) ==
  PushIf(MetricTruthy(metrics, name),
         IF MetricTruthy(metrics, name)
         THEN before \o FormatDecimal(MetricValue(metrics, name)) \o after ELSE "")

\* text.split(' ').length
WordCount(text) == Cardinality({i \in 1..Len(text) : SubSeq(text, i, i) = " "}) + 1

DomainInsightsOf(text, extractedData, domain) ==
  LET metrics == extractedData.metrics
      sentiment == extractedData.sentiment
  IN  CASE domain = "sports" ->
             MetricInsight(metrics, "goals", "Scored ", " goals")
               \o MetricInsight(metrics, "assists", "Provided ", " assists")
               \o MetricInsight(metrics, "miles", "Ran ", " miles")
        [] domain = "health" ->
             MetricInsight(metrics, "miles", "Completed ", " miles")
               \o MetricInsight(metrics, "minutes", "Worked out for ", " minutes")
        [] domain = "food" ->
             PushIf(Len(extractedData.entities.food_items) > 0,
                    "Food items: " \o Join(extractedData.entities.food_items))
               \o << IF sentiment = "positive"
                     THEN "Overall positive performance, well prepared meal."
                     ELSE IF sentiment = "negative" THEN "Meal could be improved."
                     ELSE "Meal was okay." >>
               \o PushIf(Includes(ToLowerCase(text), "spice"), "Spice level mentioned.")
        [] domain = "home" ->
             PushIf(Len(extractedData.entities.home_items) > 0,
                    "Home items mentioned: " \o Join(extractedData.entities.home_items))
               \o << IF sentiment = "positive"
                     THEN "Home environment is positive and comfortable."
                     ELSE IF sentiment = "negative"
                     THEN "Some issues at home, consider improvements."
                     ELSE "Home situation is stable." >>
        [] OTHER -> << >>

\* generateInsights
GenerateInsights(text, extractedData, domain) ==
  LET sentiment == extractedData.sentiment
      elsewhere == domain # "food" /\ domain # "home"
      insights ==
        MetricInsights(extractedData.metrics)
          \o DomainInsightsOf(text, extractedData, domain)
          \o PushIf(Len(extractedData.entities.body_parts) > 0,
                    "Focus area: " \o Join(extractedData.entities.body_parts))
          \o PushIf(Len(extractedData.entities.skills) > 0,
                    "Skills mentioned: " \o Join(extractedData.entities.skills))
          \o PushIf(sentiment = "positive" /\ elsewhere, "Overall positive performance")
          \o PushIf(sentiment = "negative" /\ elsewhere, "Areas for improvement identified")
      Defaulted(found) ==
        IF Len(found) > 0 THEN found
        ELSE << "Processed " \o domain \o " data",
                "Text contains " \o NatToString(WordCount(text)) \o " words" >>
               \o PushIf(Len(extractedData.metrics) > 0,
                         "Found " \o NatToString(Len(extractedData.metrics)) \o " metrics")
  IN  CHOOSE out \in {Defaulted(found) : found \in {insights}} : TRUE

FootworkRecommendation == "Practice footwork drills to improve technique"

\* generateRecommendations
GenerateRecommendations(text, extractedData, domain) ==
  LET metrics == extractedData.metrics
      entities == extractedData.entities
      sentiment == extractedData.sentiment
      lowerText == ToLowerCase(text)
      has(list, item) == \E i \in 1..Len(list) : list[i] = item
      sports ==
        PushIf(has(entities.body_parts, "foot"), FootworkRecommendation)
          \o PushIf(MetricTruthy(metrics, "goals")
                      /\ (MetricTruthy(metrics, "goals") => MetricValue(metrics, "goals").whole < 3),
                    "Focus on shooting accuracy in training")
          \o PushIf(MetricTruthy(metrics, "assists"),
                    "Good teamwork - continue building on assists")
      health ==
        PushIf(MetricTruthy(metrics, "miles")
                 /\ (MetricTruthy(metrics, "miles") => MetricValue(metrics, "miles").whole < 5),
               "Gradually increase running distance")
          \o PushIf(MetricTruthy(metrics, "miles")
                      /\ (MetricTruthy(metrics, "miles") => MetricValue(metrics, "miles").whole >= 5),
                    "Great distance - consider adding speed work")
      food ==
        PushIf(Includes(lowerText, "spice"),
               "Keep an eye on spice levels next time you prepare this.")
          \o PushIf(~\E i \in 1..Len(entities.food_items) :
                       entities.food_items[i] \in {"vegetable", "salad", "fruit"},
                    "Also eat some vegetables goddamn it.")
          \o PushIf(sentiment = "positive", "Keep up the good work in the kitchen!")
          \o PushIf(sentiment = "negative",
                    "Try tweaking the recipe for better results next time.")
      home ==
        PushIf(Len(entities.home_items) > 0, "Keep your home organized and comfortable.")
          \o PushIf(Includes(lowerText, "clean") \/ Includes(lowerText, "tidy"),
                    "Great job keeping things clean!")
          \o PushIf(sentiment = "negative",
                    "Consider small changes to improve your home environment.")
          \o PushIf(sentiment = "positive", "Enjoy your cozy home!")
      byDomain == CASE domain = "sports" -> sports
                    [] domain = "health" -> health
                    [] domain = "food" -> food
                    [] domain = "home" -> home
                    [] OTHER -> << >>
      Defaulted(found) ==
        IF Len(found) > 0 THEN found
        ELSE IF sentiment = "negative"
        THEN <<"Review performance and identify specific improvement areas">>
        ELSE IF sentiment = "positive"
        THEN <<"Keep up the good work and maintain consistency">>
        ELSE <<"Continue tracking your progress", "Set specific goals for improvement">>
  IN  CHOOSE out \in {Defaulted(found) : found \in {byDomain}} : TRUE

\* processText (no step of the rule-based path throws, so its catch is not taken)
ProcessText(text, timestamp) ==
  LET Result(extractedData, domain) ==
        [originalText |-> text,
         extractedData |-> extractedData,
         domain |-> domain,
         insights |-> GenerateInsights(text, extractedData, domain),
         recommendations |-> GenerateRecommendations(text, extractedData, domain)]
      Detected(extractedData) ==
        CHOOSE out \in {Result(extractedData, domain)
                         : domain \in {NLPDetectDomain(text, extractedData)}} : TRUE
  IN  CHOOSE out \in {Detected(extractedData)
                       : extractedData \in {ExtractDataWithAI(text, timestamp)}} : TRUE

ExampleText == "July 2nd - 2 goals, 2 assists. 7 miles. Left foot needs to be better."

TextPhrases == << "2 goals", "0 goals", "Left foot", "my \"weak\" foot", "dinner", "practice" >>

\* why Ollama does not answer
OllamaFailures == {"not available", "api error"}

ProcessTextCall ==
  /\ returned = NoResult
  /\ returned' = ProcessText(args.text, args.timestamp)
  /\ UNCHANGED <<pipelineVars, args>>

InitProcess ==
  /\ InitRuns /\ store = << >>
  /\ args \in {[text |-> text, ollama |-> failure, timestamp |-> "1970-01-01T00:00:00.000Z"]
                 : text \in TextsOf(TextPhrases) \cup {ExampleText}, failure \in OllamaFailures}
  /\ returned = NoResult

NextProcess == ProcessTextCall

SpecProcess == InitProcess /\ [][NextProcess]_vars

-----------------------------------------------------------------------------
(* AnalyticsService: the recommendations of an analysis *)

MaxRecommending == 3   \* insights handed to generateRecommendations
MaxCrossInsights == 2  \* cross-dataset insights handed to it

\* [...new Set(list)]: the first occurrence of every element, in order
Unique(list) ==
  LET keep == {i \in 1..Len(list) : \A j \in 1..(i - 1) : list[j] # list[i]}
  IN  [k \in 1..Cardinality(keep) |->
         list[CHOOSE i \in keep : Cardinality({j \in keep : j < i}) = k - 1]]

\* list.slice(0, n)
Slice(list, n) == SubSeq(list, 1, Min2(Len(list), n))

FinancialRecommendation ==
  "Consider setting up automated tracking for your financial data to get more consistent insights."
SportsRecommendation ==
  "Track your performance metrics regularly to identify improvement patterns."
HealthRecommendation ==
  "Monitor your health trends over time to maintain optimal wellness."

\* 0.5, the correlation above which a cross-dataset insight recommends
RecommendingCorrelation == Tenths(5)

\* the recommendations pushed, before duplicates are removed
PushedRecommendations(insights, crossDatasetInsights) ==
  LET high == SelectSeq(insights,
                LAMBDA insight : insight.priority = "high" /\ Truthy(insight.recommendation))
      cross == SelectSeq(crossDatasetInsights,
                 LAMBDA insight : FloatCmp(insight.correlation, RecommendingCorrelation) > 0)
      OfType(type) == \E i \in 1..Len(insights) : insights[i].type = type
  IN  [i \in 1..Len(high) |-> high[i].recommendation.s]
        \o [i \in 1..Len(cross) |-> cross[i].recommendation]
        \o PushIf(OfType("financial"), FinancialRecommendation)
        \o PushIf(OfType("sports"), SportsRecommendation)
        \o PushIf(OfType("health"), HealthRecommendation)

\* generateRecommendations with the list cut to 5 before duplicates are removed
AnalyticsGenerateRecommendationsCutFirst(insights, crossDatasetInsights) ==
  Unique(Slice(PushedRecommendations(insights, crossDatasetInsights), 5))

\* AnalyticsService.generateRecommendations
AnalyticsGenerateRecommendations(insights, crossDatasetInsights) ==
  Slice(Unique(PushedRecommendations(insights, crossDatasetInsights)), 5)

DomainInsight(type, priority, recommendation) ==
  [type |-> type, priority |-> priority, recommendation |-> recommendation]

\* insights as DomainAnalyzer and generateNLPInsights build them: with and
\* without a recommendation, two of them with the same one
RecommendingInsights ==
  { DomainInsight("financial", "high", Str("Review your largest expenses")),
    DomainInsight("sports", "high", Str("Practice footwork drills to improve technique")),
    DomainInsight("sports", "high", Str("Review your largest expenses")),
    DomainInsight("health", "medium", Str("Sleep earlier")),
    DomainInsight("general", "high", Undefined),
    DomainInsight("productivity", "high", Str("Plan the week ahead")) }

CrossDatasetInsight(correlation, recommendation, type) ==
  [correlation |-> correlation, recommendation |-> recommendation, type |-> type]

TimeRecommendation ==
  "These datasets may be related. Consider analyzing them together for deeper insights."

\* cross-dataset insights as generateCrossDatasetInsights builds them
CrossInsightPool ==
  { CrossDatasetInsight(FloatOf(1), "You're performing well in both scoring and playmaking",
                        "sports"),
    CrossDatasetInsight(Tenths(6), TimeRecommendation, "general"),
    CrossDatasetInsight(Tenths(5), "Your savings and spending seem well balanced", "financial"),
    CrossDatasetInsight(FloatOf(-1), "Consider adjusting your exercise routine or diet",
                        "health") }

\* the lists generateCrossDatasetInsights returns: sorted by correlation, descending
CrossInsightLists ==
  { list \in UNION {[1..n -> CrossInsightPool] : n \in 0..MaxCrossInsights} :
      \A i \in 1..(Len(list) - 1) :
        FloatCmp(list[i].correlation, list[i + 1].correlation) >= 0 }

GenerateRecommendationsCall ==
  /\ returned = NoResult
  /\ returned' = [recommendations |->
                    AnalyticsGenerateRecommendations(args.insights, args.crossDatasetInsights)]
  /\ UNCHANGED <<pipelineVars, args>>

InitRecommend ==
  /\ InitRuns /\ store = << >>
  /\ args \in {[insights |-> insights, crossDatasetInsights |-> cross] :
                 insights \in UNION {[1..n -> RecommendingInsights] : n \in 0..MaxRecommending},
                 cross \in CrossInsightLists}
  /\ returned = NoResult

NextRecommend == GenerateRecommendationsCall

SpecRecommend == InitRecommend /\ [][NextRecommend]_vars

-----------------------------------------------------------------------------
(* AnalyticsService: analyzeAllData *)

\* what a call leaves when it throws, and when it returns
Thrown == [thrown |-> TRUE]
Return(value) == [thrown |-> FALSE, value |-> value]

\* s.split(sep)
RECURSIVE Split(_, _)
Split(s, sep) ==
  LET at == {i \in 1..(Len(s) - Len(sep) + 1) : SubSeq(s, i, i + Len(sep) - 1) = sep}
  IN  IF at = {} THEN <<s>>
      ELSE <<SubSeq(s, 1, SetMin(at) - 1)>>
             \o Split(SubSeq(s, SetMin(at) + Len(sep), Len(s)), sep)

\* s.trim(), as a condition
TrimTruthy(s) == \E i \in 1..Len(s) : ~IsSpace(SubSeq(s, i, i))

\* getAllDatasets: no dataset when getAllFiles rejects; a file whose getFileData
\* throws and a file without rows are left out
GetAllDatasets(files, rejects, unreadable) ==
  IF rejects THEN << >> ELSE GetAllData(files, unreadable)

\* isNLPProcessedData
IsNLPProcessedData(dataset) ==
  /\ HasColumn(dataset, "domain")
  /\ HasColumn(dataset, "insights")
  /\ HasColumn(dataset, "recommendations")

\* extractDomainFromNLPData (the stored domain is a string or missing), the
\* confidence in tenths
ExtractDomainFromNLPData(dataset) ==
  IF Len(dataset.data) = 0 THEN DataDomain("general", Num(5), << >>, dataset.columns)
  ELSE LET firstRow == dataset.data[1]
       IN  DataDomain(IF Truthy(Field(firstRow, "domain")) THEN Field(firstRow, "domain").s
                      ELSE "general",
                      ConfidenceOrDefault(Field(firstRow, "confidence")),
                      <<"nlp_processed">>, dataset.columns)

\* what the later stages read of a DomainInsight; title, description and value
\* are left out (no insight built here holds value.timeSeriesData)
AnalysisInsight(type, category, confidence, priority, recommendation) ==
  [type |-> type, category |-> category, confidence |-> confidence, priority |-> priority,
   recommendation |-> recommendation]

\* generateNLPInsights: split is no method of a number, so a first row whose
\* insights or recommendations cell is a number other than 0 throws
GenerateNLPInsights(dataset) ==
  LET firstRow == dataset.data[1]
      domain == IF Truthy(Field(firstRow, "domain")) THEN Field(firstRow, "domain").s
                ELSE "general"
      confidence == ConfidenceOrDefault(Field(firstRow, "confidence"))
      metricsCell == Field(firstRow, "metrics")
      entries == IF Truthy(metricsCell) /\ metricsCell.t = "string" /\ JsonParses(metricsCell.s)
                 THEN JsonParse(metricsCell.s) ELSE << >>
      counted == SelectSeq(entries, LAMBDA entry : entry[2].t = "number" /\ entry[2].v > 0)
      Listed(cell) == IF Truthy(cell)
                      THEN SelectSeq(Split(cell.s, "; "), LAMBDA item : TrimTruthy(item))
                      ELSE << >>
      Splits(cell) == ~Truthy(cell) \/ cell.t = "string"
      insightList == Listed(Field(firstRow, "insights"))
      recList == Listed(Field(firstRow, "recommendations"))
  IN  IF Len(dataset.data) = 0 THEN Return(<< >>)
      ELSE IF ~Splits(Field(firstRow, "insights")) \/ ~Splits(Field(firstRow, "recommendations"))
      THEN Thrown
      ELSE Return(
        [i \in 1..Len(counted) |->
           AnalysisInsight(domain, "metrics", confidence, "medium", Undefined)]
        \o [i \in 1..Len(insightList) |->
              AnalysisInsight(domain, "nlp_insight", confidence, "medium", Undefined)]
        \o [i \in 1..Len(recList) |->
              AnalysisInsight(domain, "recommendation", confidence, "high", Str(recList[i]))])

\* data.map(row => row[col]).filter(v => v !== null && !isNaN(v))
InsightValues(data, col) ==
  SelectSeq(ColumnValues(data, col), LAMBDA v : v # Null /\ ~IsNaN(v))

\* generateHealthInsights: one insight for every health column with a value
GenerateHealthInsights(data, columns, columnTypes) ==
  LET healthColumns ==
        SelectSeq(columns, LAMBDA col :
          \/ IsHealthColumn(col)
          \/ columnTypes[col] = "number" /\ HasHealthValues(data, col))
      reported == SelectSeq(healthColumns, LAMBDA col : Len(InsightValues(data, col)) > 0)
  IN  [i \in 1..Len(reported) |->
         AnalysisInsight("health", "metrics", Num(8), "medium", Undefined)]

\* generateProductivityInsights
GenerateProductivityInsights(data, columns, columnTypes) ==
  LET productivityColumns ==
        SelectSeq(columns, LAMBDA col :
          \/ IsProductivityColumn(col)
          \/ columnTypes[col] = "number" /\ HasProductivityValues(data, col))
      reported == SelectSeq(productivityColumns, LAMBDA col : Len(InsightValues(data, col)) > 0)
  IN  [i \in 1..Len(reported) |->
         AnalysisInsight("productivity", "summary", Num(8), "medium", Undefined)]

\* generateGeneralInsights
GenerateGeneralInsights(data, columns, columnTypes) ==
  LET reported == SelectSeq(columns, LAMBDA col :
                    columnTypes[col] = "number" /\ Len(InsightValues(data, col)) > 0)
  IN  [i \in 1..Len(reported) |->
         AnalysisInsight("general", "statistics", Num(7), "medium", Undefined)]

\* generateDomainInsights for the tabular datasets of the stores, none of which
\* classifies as financial or sports
GenerateDomainInsights(data, columns, columnTypes, domain) ==
  CASE domain.type = "health" -> GenerateHealthInsights(data, columns, columnTypes)
    [] domain.type = "productivity" -> GenerateProductivityInsights(data, columns, columnTypes)
    [] domain.type \notin {"financial", "sports", "health", "productivity"} ->
         GenerateGeneralInsights(data, columns, columnTypes)

\* the body of the loop over the datasets: the domain and the insights of one
\* dataset
ClassifyDataset(dataset) ==
  IF IsNLPProcessedData(dataset)
  THEN LET insights == GenerateNLPInsights(dataset)
       IN  IF insights.thrown THEN Thrown
           ELSE Return([domain |-> ExtractDomainFromNLPData(dataset),
                        insights |-> insights.value])
  ELSE LET domain == DetectDomain(dataset.data, dataset.columns)
       IN  Return([domain |-> domain,
                   insights |-> GenerateDomainInsights(dataset.data, dataset.columns,
                                                       dataset.columnTypes, domain)])

\* generateFinancialCrossInsights, generateSportsCrossInsights and
\* generateHealthCrossInsights: the first correlation between a dataset with a
\* column of the one kind and a dataset with a column of the other
PairCrossInsights(datasets, correlations, firstWords, secondWords, above, atMost, type) ==
  LET Named(words) ==
        {datasets[i].name : i \in {j \in 1..Len(datasets) :
           \E k \in 1..Len(datasets[j].columns) : HasKeyword(datasets[j].columns[k], words)}}
      first == Named(firstWords)
      second == Named(secondWords)
      found == SelectSeq(correlations, LAMBDA c :
                 \/ c.dataset1 \in first /\ c.dataset2 \in second
                 \/ c.dataset2 \in first /\ c.dataset1 \in second)
  IN  IF first # {} /\ second # {} /\ Len(found) > 0
      THEN << CrossDatasetInsight(found[1].correlation,
                IF ~found[1].correlation.nan /\ FloatCmp(found[1].correlation, Tenths(7)) > 0
                THEN above ELSE atMost, type) >>
      ELSE << >>

\* generateDomainCrossInsights
GenerateDomainCrossInsights(domain, datasets, correlations) ==
  CASE domain = "financial" ->
         PairCrossInsights(datasets, correlations, {"savings"}, {"spending"},
           "Consider tracking your spending more closely to optimize savings",
           "Your savings and spending seem well balanced", "financial")
    [] domain = "sports" ->
         PairCrossInsights(datasets, correlations, {"goal"}, {"assist"},
           "You're performing well in both scoring and playmaking",
           "Consider focusing on improving either goals or assists", "sports")
    [] domain = "health" ->
         PairCrossInsights(datasets, correlations, {"exercise", "workout"}, {"weight"},
           "Your exercise routine is effectively impacting your weight",
           "Consider adjusting your exercise routine or diet", "health")
    [] OTHER -> << >>

\* generateTimeBasedInsights
GenerateTimeBasedInsights(correlations) ==
  LET strong == SelectSeq(correlations, LAMBDA c :
                  /\ \E i \in 1..Len(c.sharedColumns) : c.sharedColumns[i] = "time"
                  /\ ~c.correlation.nan
                  /\ FloatCmp(c.correlation, RecommendingCorrelation) > 0)
  IN  [i \in 1..Len(strong) |->
         CrossDatasetInsight(strong[i].correlation, TimeRecommendation, "general")]

\* the domains of the datasets in the order of their first dataset
DomainsOf(datasets) == Unique([i \in 1..Len(datasets) |-> datasets[i].domain])

\* generateCrossDatasetInsights
GenerateCrossDatasetInsights(datasets, correlations) ==
  LET domains == DomainsOf(datasets)
      Group(domain) == SelectSeq(datasets, LAMBDA dataset : dataset.domain = domain)
  IN  SortByCorrelation(
        SeqConcat([i \in 1..Len(domains) |->
          IF Len(Group(domains[i])) > 1
          THEN GenerateDomainCrossInsights(domains[i], Group(domains[i]), correlations)
          ELSE << >>])
        \o GenerateTimeBasedInsights(correlations))

ChartSuggestion(type, title, priority) == [type |-> type, title |-> title, priority |-> priority]

\* generateChartSuggestions: no insight holds a time series, so the charts are
\* the pie of a financial dataset and the bar of a sports dataset, all of
\* priority medium, which the sort leaves in place
GenerateChartSuggestions(insights, datasets) ==
  Slice(SeqConcat([i \in 1..Len(datasets) |->
    PushIf(/\ datasets[i].domain = "financial"
           /\ \E k \in 1..Len(datasets[i].columns) : IsMoneyColumn(datasets[i].columns[k]),
           ChartSuggestion("pie", "Financial Breakdown", "medium"))
    \o PushIf(/\ datasets[i].domain = "sports"
              /\ \E k \in 1..Len(datasets[i].columns) :
                   IsSportsPerformanceColumn(datasets[i].columns[k]),
              ChartSuggestion("bar", "Sports Performance Summary", "medium"))]), 10)

\* countDomains
CountDomains(datasets) ==
  [domain \in Elements(DomainsOf(datasets)) |->
     Cardinality({i \in 1..Len(datasets) : datasets[i].domain = domain})]

\* getEmptyResult
GetEmptyResult ==
  [ summary |-> [totalDatasets |-> 0, totalRecords |-> 0, domains |-> << >>],
    insights |-> << >>,
    crossDatasetInsights |-> << >>,
    recommendations |-> << "Upload your first dataset to start getting insights",
                           "Try uploading different types of data to discover correlations",
                           "Use the text input to quickly add data points" >>,
    charts |-> << >>,
    aiInsights |-> << >>,
    aiAnalysis |-> Null,
    aiSummary |-> "No data available for analysis" ]

\* what analyzeMultipleDatasetsWithAI resolves with, as far as analyzeAllData
\* reads it: an object without keyInsights and without summary
AIAnalysis == [overallSummary |-> "summary"]

\* the stages after the fetch, in the order analyzeAllData starts them
AnalysisStages ==
  << "classification", "correlation", "recommendation", "charts", "ai", "ranking" >>

\* the analysis of classified datasets: the results analyzeAllData can return,
\* one for every order the sort of the insights can produce
AnalysisOf(datasets, classified, aiRejects) ==
  UNION { UNION { UNION {
    { [ summary |->
          [ totalDatasets |-> Len(datasets),
            totalRecords |-> SumOver([i \in 1..Len(datasets) |-> Len(datasets[i].data)],
                                     1..Len(datasets)),
            domains |-> CountDomains(datasetMetadata) ],
        insights |-> sorted,
        crossDatasetInsights |-> crossDatasetInsights,
        recommendations |->
          AnalyticsGenerateRecommendations(allInsights, crossDatasetInsights),
        charts |-> GenerateChartSuggestions(allInsights, datasetMetadata),
        aiInsights |-> << >>,
        aiAnalysis |-> IF aiRejects THEN Null ELSE AIAnalysis,
        aiSummary |-> "No AI analysis available" ] : sorted \in ArraySort(allInsights) }
      : crossDatasetInsights \in GenerateCrossDatasetInsights(datasetMetadata, correlations) }
      : correlations \in FindCorrelations(datasetMetadata) }
      : allInsights \in {SeqConcat([i \in 1..Len(datasets) |-> classified[i].value.insights])},
        datasetMetadata \in
          {[i \in 1..Len(datasets) |->
              DatasetMetadata(datasets[i].name, classified[i].value.domain.type,
                              datasets[i].columns, datasets[i].columnTypes,
                              datasets[i].data)]} }

\* the try block of analyzeAllData without the test datasets.length === 0
AnalyzeAllDataTryEveryStage(files, rejects, unreadable, aiRejects) ==
  UNION { UNION {
    IF \E i \in 1..Len(datasets) : classified[i].thrown
    THEN {[thrown |-> TRUE, stages |-> SubSeq(AnalysisStages, 1, 1)]}
    ELSE {[thrown |-> FALSE, value |-> analysis, stages |-> AnalysisStages]
            : analysis \in AnalysisOf(datasets, classified, aiRejects)}
      : classified \in {[i \in 1..Len(datasets) |-> ClassifyDataset(datasets[i])]} }
      : datasets \in {GetAllDatasets(files, rejects, unreadable)} }

\* the try block of analyzeAllData: what it returns or that it throws, and the
\* stages it started
AnalyzeAllDataTry(files, rejects, unreadable, aiRejects) ==
  UNION {
    IF Len(datasets) = 0
    THEN {[thrown |-> FALSE, value |-> GetEmptyResult, stages |-> << >>]}
    ELSE UNION {
      IF \E i \in 1..Len(datasets) : classified[i].thrown
      THEN {[thrown |-> TRUE, stages |-> SubSeq(AnalysisStages, 1, 1)]}
      ELSE {[thrown |-> FALSE, value |-> analysis, stages |-> AnalysisStages]
              : analysis \in AnalysisOf(datasets, classified, aiRejects)}
        : classified \in {[i \in 1..Len(datasets) |-> ClassifyDataset(datasets[i])]} }
      : datasets \in {GetAllDatasets(files, rejects, unreadable)} }

\* analyzeAllData without its catch block
AnalyzeAllDataUncaught(files, rejects, unreadable, aiRejects) ==
  { [value |-> IF outcome.thrown THEN Thrown ELSE outcome.value, stages |-> outcome.stages]
      : outcome \in AnalyzeAllDataTry(files, rejects, unreadable, aiRejects) }

\* analyzeAllData: the catch block returns the empty result
AnalyzeAllData(files, rejects, unreadable, aiRejects) ==
  { [value |-> IF outcome.thrown THEN GetEmptyResult ELSE outcome.value,
     stages |-> outcome.stages]
      : outcome \in AnalyzeAllDataTry(files, rejects, unreadable, aiRejects) }

\* a text entry stored by the NLP path, the confidence in tenths
NoteFile ==
  [ id |-> "f5", fileName |-> "note.txt", uploadDate |-> 5,
    columns |-> <<"domain", "insights", "recommendations", "metrics", "confidence", "goals">>,
    columnTypes |-> [domain |-> "string", insights |-> "string", recommendations |-> "string",
                     metrics |-> "string", confidence |-> "number", goals |-> "number"],
    data |-> << [domain |-> Str("sports"), insights |-> Str("Scored 2 goals; "),
                 recommendations |-> Str("Practice footwork drills to improve technique"),
                 metrics |-> Str(JsonGoalsZero), confidence |-> Num(9), goals |-> Num(2)] >> ]

\* an uploaded file with the columns of a text entry and a number for insights
ScoresFile ==
  [ id |-> "f6", fileName |-> "scores.csv", uploadDate |-> 6,
    columns |-> <<"domain", "insights", "recommendations">>,
    columnTypes |-> [domain |-> "string", insights |-> "number", recommendations |-> "string"],
    data |-> << [domain |-> Str("health"), insights |-> Num(3),
                 recommendations |-> Str("Sleep earlier")] >> ]

\* two tabular health files over the same three days
SleepFile ==
  [ id |-> "f7", fileName |-> "sleep.csv", uploadDate |-> 7,
    columns |-> <<"date", "sleep">>,
    columnTypes |-> [date |-> "string", sleep |-> "number"],
    data |-> << [date |-> Str("1970-01-01"), sleep |-> Num(6)],
                [date |-> Str("1970-01-02"), sleep |-> Num(7)],
                [date |-> Str("1970-01-03"), sleep |-> Num(8)] >> ]

StepsFile ==
  [ id |-> "f8", fileName |-> "steps.csv", uploadDate |-> 8,
    columns |-> <<"date", "steps">>,
    columnTypes |-> [date |-> "string", steps |-> "number"],
    data |-> << [date |-> Str("1970-01-01"), steps |-> Num(1)],
                [date |-> Str("1970-01-02"), steps |-> Num(2)],
                [date |-> Str("1970-01-03"), steps |-> Num(4)] >> ]

AnalysisFilePool == <<NoteFile, ScoresFile, SleepFile, StepsFile, EmptyFile>>

\* the stores of an analysis: at most MaxFiles files of the pool, in pool order
AnalysisStores ==
  { SeqConcat([i \in 1..Len(AnalysisFilePool) |->
                 PushIf(i \in chosen, AnalysisFilePool[i])]) :
      chosen \in {c \in SUBSET (1..Len(AnalysisFilePool)) : Cardinality(c) <= MaxFiles} }

\* what the store and the AI service do during one analysis: getAllFiles
\* resolves or rejects, getFileData throws for at most one file,
\* analyzeMultipleDatasetsWithAI resolves or rejects
AnalysisRuns(files) ==
  { [entry |-> "analyzeAllData", getAllFiles |-> fetch, unreadable |-> unreadable, ai |-> ai] :
      fetch \in {"resolves", "rejects"},
      unreadable \in {{}} \cup {{i} : i \in 1..Len(files)},
      ai \in {"resolves", "rejects"} }

AnalyzeAllDataCall ==
  /\ returned = NoResult
  /\ \E out \in AnalyzeAllData(store, args.getAllFiles = "rejects", args.unreadable,
                               args.ai = "rejects") : returned' = out
  /\ UNCHANGED <<pipelineVars, args>>

InitAnalyze ==
  /\ InitRuns /\ store \in AnalysisStores
  /\ args \in AnalysisRuns(store)
  /\ returned = NoResult

NextAnalyze == AnalyzeAllDataCall

SpecAnalyze == InitAnalyze /\ [][NextAnalyze]_vars

-----------------------------------------------------------------------------
(* The public entry points *)

\* the texts handed to processText
EntryTexts == {"", "\"", "dinner", "2 goals my \"weak\" foot", ExampleText}

\* one call of one entry point: analyzeAllData, buildMetrics or processText
InitEntry ==
  /\ InitRuns
  /\ returned = NoResult
  /\ \/ store \in AnalysisStores /\ args \in AnalysisRuns(store)
     \/ store \in Stores /\ args = [entry |-> "buildMetrics"]
     \/ /\ store = << >>
        /\ args \in {[entry |-> "processText", text |-> text, ollama |-> failure,
                      timestamp |-> "1970-01-01T00:00:00.000Z"]
                       : text \in EntryTexts, failure \in OllamaFailures}

NextEntry ==
  \/ args.entry = "analyzeAllData" /\ AnalyzeAllDataCall
  \/ args.entry = "buildMetrics" /\ RunStep(1) /\ UNCHANGED <<args, returned>>
  \/ args.entry = "processText" /\ ProcessTextCall

SpecEntry == InitEntry /\ [][NextEntry]_vars

-----------------------------------------------------------------------------
(* NLPProcessor: processText as a process that waits for Ollama *)

\* what Ollama does during one call: the probe GET /api/tags rejects or answers
\* with a status that is not ok; or the probe is ok and POST /api/generate
\* rejects, answers with a status that is not ok, answers with a body that is
\* not JSON, or answers
ProbeFailures == {"probe rejects", "probe not ok"}
GenerateFailures == {"generate rejects", "generate not ok", "body rejects"}
Answers == {"answers json", "answers text", "answers nothing"}

\* the rest of processText once the data is extracted
ProcessTextFrom(text, extractedData) ==
  CHOOSE out \in
    {[originalText |-> text,
      extractedData |-> extractedData,
      domain |-> domain,
      insights |-> GenerateInsights(text, extractedData, domain),
      recommendations |-> GenerateRecommendations(text, extractedData, domain)]
       : domain \in {NLPDetectDomain(text, extractedData)}} : TRUE

\* extractDataWithAI once /api/generate has answered: a response that holds, as
\* JSON, the data the local rules find, with confidence 0.95, is parsed into
\* that data; a response without JSON goes through the rules itself; without a
\* response field parseAIResponse throws and the rules get the text
ExtractDataFromAnswer(text, answer, timestamp) ==
  CASE answer = "answers json" -> RuleBasedData(text, 95, timestamp)
    [] answer = "answers text" -> ExtractDataWithRules("Sorry, no data", timestamp)
    [] answer = "answers nothing" -> ExtractDataWithRules(text, timestamp)

OllamaTexts == EntryTexts \cup {"2 goals", "Left foot", "practice"}

CallTimestamp == "1970-01-01T00:00:00.000Z"

\* what processText returns for every text of the pool, computed once: by the
\* local path, and after an answer of /api/generate
LocalResults == [text \in OllamaTexts |-> ProcessText(text, CallTimestamp)]

AnsweredResults ==
  [text \in OllamaTexts |->
     [answer \in Answers |->
        ProcessTextFrom(text, ExtractDataFromAnswer(text, answer, CallTimestamp))]]

\* processText is called: the prompt is built and the probe is sent
CallProcessText ==
  /\ pc[1] = "idle"
  /\ returned = NoResult
  /\ pc' = [pc EXCEPT ![1] = "probing"]
  /\ UNCHANGED <<registry, writer, store, allData, idx, domainMetrics, crossDomain, result,
                 args, returned>>

\* the probe settles and Ollama is not available: processLocally gets the
\* prompt and processText runs to its end
ProbeFails ==
  /\ pc[1] = "probing"
  /\ args.ollama \in ProbeFailures
  /\ returned' = LocalResults[args.text]
  /\ pc' = [pc EXCEPT ![1] = "done"]
  /\ UNCHANGED <<registry, writer, store, allData, idx, domainMetrics, crossDomain, result,
                 args>>

\* the probe settles and Ollama is available: the generate call is sent
ProbeSucceeds ==
  /\ pc[1] = "probing"
  /\ args.ollama \notin ProbeFailures
  /\ pc' = [pc EXCEPT ![1] = "generating"]
  /\ UNCHANGED <<registry, writer, store, allData, idx, domainMetrics, crossDomain, result,
                 args, returned>>

\* callOllama that sends the probe again when the generate call fails
GenerateFailsAndRetries ==
  /\ pc[1] = "generating"
  /\ args.ollama \in GenerateFailures
  /\ pc' = [pc EXCEPT ![1] = "probing"]
  /\ UNCHANGED <<registry, writer, store, allData, idx, domainMetrics, crossDomain, result,
                 args, returned>>

\* the generate call fails: the catch block of callOllama hands the prompt to
\* processLocally and processText runs to its end
GenerateFails ==
  /\ pc[1] = "generating"
  /\ args.ollama \in GenerateFailures
  /\ returned' = LocalResults[args.text]
  /\ pc' = [pc EXCEPT ![1] = "done"]
  /\ UNCHANGED <<registry, writer, store, allData, idx, domainMetrics, crossDomain, result,
                 args>>

\* the generate call answers and processText runs to its end
GenerateAnswers ==
  /\ pc[1] = "generating"
  /\ args.ollama \in Answers
  /\ returned' = AnsweredResults[args.text][args.ollama]
  /\ pc' = [pc EXCEPT ![1] = "done"]
  /\ UNCHANGED <<registry, writer, store, allData, idx, domainMetrics, crossDomain, result,
                 args>>

InitOllama ==
  /\ InitRuns /\ store = << >>
  /\ args \in {[text |-> text, ollama |-> outcome, timestamp |-> CallTimestamp]
                 : text \in OllamaTexts,
                   outcome \in ProbeFailures \cup GenerateFailures \cup Answers}
  /\ returned = NoResult

NextOllama ==
  \/ CallProcessText
  \/ ProbeFails
  \/ ProbeSucceeds
  \/ GenerateFails
  \/ GenerateAnswers

\* every request sent settles (fetch resolves or rejects), and the code that
\* waits for it then runs
SpecOllama == InitOllama /\ [][NextOllama]_vars /\ WF_vars(NextOllama)

-----------------------------------------------------------------------------
(* DataPipeline: processStandardData on one tabular dataset *)

\* the column names of the tabular datasets, their types and their pipeline domain:
\* goals, home_goals, away_goals (sports); Cost_Price, amount (financial);
\* weight (health); notes (a string column)
TableColumnPool ==
  << "goals", "home_goals", "away_goals", "Cost_Price", "amount", "weight", "notes" >>

TableColumnType(col) == IF col = "notes" THEN "string" ELSE "number"

\* the cells a column holds from its first row on: numbers that differ from row to
\* row and from column to column, or a text, a zero and numeric texts
TableCell(kind, position, r) ==
  IF kind = "numbers" THEN Num(r + position)
  ELSE IF r = 1 THEN Str("x")
  ELSE IF r = 2 THEN Num(0)
  ELSE Str(NatToString(r + position))

\* sequences of n distinct positions of the pool
RECURSIVE Arrangements(_)
Arrangements(n) ==
  IF n = 0 THEN {<< >>}
  ELSE { Append(a, p) : a \in Arrangements(n - 1), p \in 1..Len(TableColumnPool) }

DistinctArrangements(n) ==
  { a \in Arrangements(n) : \A i, j \in 1..n : a[i] = a[j] => i = j }

\* the dataset with the columns at the positions `chosen`, the cells `kinds` and n rows
TableDataset(chosen, kinds, n) ==
  LET columns == [i \in 1..Len(chosen) |-> TableColumnPool[chosen[i]]]
      PositionOf(col) == CHOOSE i \in 1..Len(chosen) : columns[i] = col
  IN  [ id |-> "t1", name |-> "table.csv", createdAt |-> 1,
        columns |-> columns,
        columnTypes |-> [col \in {columns[i] : i \in 1..Len(columns)} |-> TableColumnType(col)],
        data |-> [r \in 1..n |->
                    [col \in {columns[i] : i \in 1..Len(columns)} |->
                       TableCell(kinds[PositionOf(col)], PositionOf(col), r)]] ]

\* tabular datasets of 1..MaxColumns columns and MaxRows rows
TableDatasets ==
  UNION { { TableDataset(chosen, kinds, MaxRows) :
              chosen \in DistinctArrangements(w),
              kinds \in [1..w -> {"numbers", "mixed"}] } : w \in 1..MaxColumns }

\* processDataset on a tabular dataset: the registry after its recordMetric calls;
\* returned keeps the calls of every row
ProcessStandardDataCall ==
  /\ returned = NoResult
  /\ ~PipelineIsNLPProcessedData(args)
  /\ registry' = ApplyCalls(registry, ProcessDataset(args))
  /\ returned' = [rows |-> [r \in 1..Len(args.data) |->
                    ProcessStandardRow(args.data[r], args, PipelineDetectDomain(args))]]
  /\ UNCHANGED <<writer, store, pc, allData, idx, domainMetrics, crossDomain, result, args>>

InitIngest == InitRuns /\ store = << >> /\ args \in TableDatasets /\ returned = NoResult

NextIngest == ProcessStandardDataCall

SpecIngest == InitIngest /\ [][NextIngest]_vars

-----------------------------------------------------------------------------
(* Claims about the metric registry *)

\* C1: after every recordMetric call, every aggregation has count equal to the
\* number of its history entries, total equal to the sum of the history values,
\* and average equal to total / count.
C1_CountTotalAverage ==
  \A k \in DOMAIN registry :
    LET agg == registry[k]
    IN  /\ agg.count = Len(agg.history)
        /\ agg.total = SumValues(agg.history)
        /\ agg.count > 0
        /\ agg.average[2] > 0
        /\ agg.average[1] * agg.count = agg.total * agg.average[2]

\* three calls for one key whose average, 4/3, is not a whole number
C1_Witness ==
  \E k \in DOMAIN registry :
    /\ registry[k].count = 3
    /\ registry[k].total = 4
    /\ registry[k].average = <<4, 3>>

\* C2: the trend is 'stable' whenever the history has fewer than 3 entries, and a
\* trend becomes 'increasing' or 'decreasing' only in a recordMetric call that
\* brings the history to 3 entries or more.
C2_TrendNeedsThreePoints ==
  /\ [](\A k \in DOMAIN registry :
          Len(registry[k].history) < 3 => registry[k].trend = "stable")
  /\ [][\A k \in DOMAIN registry' :
          LET new == registry'[k]
              turned == /\ new.trend # "stable"
                        /\ (k \in DOMAIN registry => registry[k].trend # new.trend)
          IN  turned =>
                /\ Len(new.history) >= 3
                /\ k \in DOMAIN registry
                /\ Len(new.history) = Len(registry[k].history) + 1]_vars

\* exactly two points, the second three times the first, and the trend is stable
C2_Witness ==
  \E k \in DOMAIN registry :
    LET h == registry[k].history
    IN  /\ Len(h) = 2
        /\ h[1].value = 1
        /\ h[2].value = 3
        /\ registry[k].trend = "stable"

\* the registry one buildMetrics call builds from an empty registry
SingleBuild(files) ==
  LET datasets == GetAllData(files, {})
  IN  ApplyCalls(EmptyRegistry, SeqConcat([i \in 1..Len(datasets) |-> ProcessDataset(datasets[i])]))

\* a finished call that read every file of the store
ReadWholeStore(r) == pc[r] = "done" /\ allData[r] = GetAllData(store, {})

\* C3: after any number of consecutive buildMetrics calls over an unchanged store,
\* every aggregation's total, count and history are those of a single call from
\* an empty registry.
C3_RebuiltFromScratch ==
  ( /\ NoneRunning
    /\ \E r \in Runs : pc[r] = "done"
    /\ \A r \in Runs : pc[r] = "done" => ReadWholeStore(r) )
  => LET single == SingleBuild(store)
     IN  /\ DOMAIN registry = DOMAIN single
         /\ \A k \in DOMAIN registry :
              /\ registry[k].total = single[k].total
              /\ registry[k].count = single[k].count
              /\ registry[k].history = single[k].history

\* the recordMetric calls run r has made
Wrote(r) ==
  SumOver([i \in 1..(idx[r] - 1) |-> Len(DatasetCalls(allData[r][i]))], 1..(idx[r] - 1))

\* s is t or a beginning of t
IsPrefix(s, t) == Len(s) <= Len(t) /\ SubSeq(t, 1, Len(s)) = s

\* C4: overlapping buildMetrics runs write into one registry: it holds the writes
\* of both, and the aggregations a run returns are the registry's own, so they
\* hold what either run recorded under that key.
C4_OneSharedRegistry ==
  /\ TotalCount(registry) = SumOver([r \in Runs |-> Wrote(r)], Runs)
  /\ \A k \in DOMAIN registry : Len(writer[k]) = Len(registry[k].history)
  /\ \A r \in Runs :
       pc[r] = "done" =>
         \A dm \in result[r].domainMetrics :
           \A m \in DOMAIN dm.metrics :
             LET key == MetricKey(dm.domain, m)
             IN  /\ key \in DOMAIN registry
                 /\ IsPrefix(dm.metrics[m].history, registry[key].history)

\* run 1 has returned an aggregation in which a value recorded by run 2 stands
\* between two values run 1 recorded while processing different datasets
C4_Witness ==
  /\ pc[1] = "done"
  /\ \E dm \in result[1].domainMetrics :
       \E m \in DOMAIN dm.metrics :
         LET h == dm.metrics[m].history
             w == writer[MetricKey(dm.domain, m)]
         IN  \E i, j, l \in 1..Len(h) :
               /\ i < j /\ j < l
               /\ w[i] = 1 /\ w[j] = 2 /\ w[l] = 1
               /\ h[i].source # h[l].source

-----------------------------------------------------------------------------
(* Claims about the classifier *)

\* the domains in the order of the tests of detectDomain
DomainOrder == <<"financial", "sports", "health", "productivity">>

\* the dataset, with these indicators, passes the test of the domain
MatchesDomain(domain, indicators, columns) ==
  CASE domain = "financial" -> IsFinancialData(indicators, columns)
    [] domain = "sports" -> IsSportsData(indicators, columns)
    [] domain = "health" -> IsHealthData(indicators, columns)
    [] domain = "productivity" -> IsProductivityData(indicators, columns)

HasColumnNamed(columns, name) ==
  \E i \in 1..Len(columns) : ToLowerCase(columns[i]) = name

\* C5: the classification is the earliest domain, in the order financial, sports,
\* health, productivity, whose indicators the dataset shows, and general when it
\* shows none; a dataset with a goals column and an amount column is financial.
C5_FirstMatchWins ==
  returned # NoResult =>
    LET indicators == GetDomainIndicators(args.data, args.columns)
        matching == {i \in 1..Len(DomainOrder) :
                       MatchesDomain(DomainOrder[i], indicators, args.columns)}
    IN  /\ matching = {} => returned.type = "general"
        /\ matching # {} => returned.type = DomainOrder[SetMin(matching)]
        /\ (HasColumnNamed(args.columns, "goals") /\ HasColumnNamed(args.columns, "amount"))
             => returned.type = "financial"

\* a classified dataset with a goals column and an amount column
C5_Witness ==
  /\ returned # NoResult
  /\ HasColumnNamed(args.columns, "goals")
  /\ HasColumnNamed(args.columns, "amount")
  /\ IsSportsData(returned.indicators, args.columns)
  /\ returned.type = "financial"

-----------------------------------------------------------------------------
(* Claims about the order of the insights *)

\* C6: the returned insights are the input insights ordered by priority weight
\* times confidence, descending, and insights of equal score keep their input order.
C6_RankedByScore ==
  returned # NoResult =>
    LET insights == returned.insights
    IN  /\ Len(insights) = Len(args.allInsights)
        /\ Elements(insights) = Elements(args.allInsights)
        /\ \A i, j \in 1..Len(insights) :
             (i < j /\ ~Score(insights[i]).nan /\ ~Score(insights[j]).nan) =>
               /\ Score(insights[i]).v >= Score(insights[j]).v
               /\ Score(insights[i]).v = Score(insights[j]).v =>
                    insights[i].title < insights[j].title

-----------------------------------------------------------------------------
(* Claims about the Pearson coefficient *)

\* every entry of the vector is the same number
IsConstant(x) == \A i, j \in 1..Len(x) : FloatCmp(x[i], x[j]) = 0

RECURSIVE ExactSum(_, _)
ExactSum(terms, n) ==
  IF n = 0 THEN FloatZero ELSE ExactAdd(ExactSum(terms, n - 1), terms[n])

\* sum of (n * a[i] - sum a) * (n * b[i] - sum b), without rounding: n * n times
\* the sum of the products of the deviations from the means
Deviations(a, b) ==
  LET n == Len(a)
      sumA == ExactSum(a, n)
      sumB == ExactSum(b, n)
  IN  ExactSum([i \in 1..n |-> ExactMul(ExactSub(ExactMul(FloatOf(n), a[i]), sumA),
                                         ExactSub(ExactMul(FloatOf(n), b[i]), sumB))], n)

\* the standard formula: the sum of the products of the deviations over the root
\* of the product of the sums of their squares, 0 when that product is 0
StandardPearson(x, y) ==
  LET product == ExactMul(Deviations(x, x), Deviations(y, y))
  IN  IF Len(x) = 0 \/ product.sign = 0 THEN FloatZero
      ELSE FloatDiv(Rounded(Deviations(x, y)), FloatSqrt(Rounded(product)))

\* equal within floating tolerance
Close(a, b) ==
  /\ ~a.nan /\ ~b.nan
  /\ FloatCmp(FloatAbs(ExactSub(a, b)), Float(1, <<1>>, -40)) < 0

\* C8: the coefficient is that of the standard Pearson formula; it is 0 for two
\* constant vectors, and 1 for a vector that is not constant with itself.
C8_StandardPearson ==
  returned # NoResult =>
    /\ Close(returned.correlation, StandardPearson(args.x, args.y))
    /\ (IsConstant(args.x) /\ IsConstant(args.y)) => returned.correlation.sign = 0
    /\ (args.x = args.y /\ ~IsConstant(args.x)) => Close(returned.correlation, FloatOf(1))

-----------------------------------------------------------------------------
(* Claims about the time-aligned strategy *)

\* the series the time-aligned strategy builds for a dataset that has a date
\* column and a number column
SeriesOf(dataset) ==
  IF Len(DateColumns(dataset)) = 0 \/ Len(NumericColumns(dataset)) = 0 THEN << >>
  ELSE TimeSeries(dataset.data, DateColumns(dataset)[1], NumericColumns(dataset)[1])

\* how many points of the first series have a point of the second within a day
AlignedPairs(dataset1, dataset2) ==
  LET series1 == SeriesOf(dataset1)
      series2 == SeriesOf(dataset2)
  IN  Cardinality({i \in 1..Len(series1) :
        \E j \in 1..Len(series2) : Abs(series1[i].date - series2[j].date) <= Tolerance})

\* a result of the time-aligned strategy for the two datasets (no column of the
\* pool is named time, so no other strategy shares that column)
TimeResults(correlations, dataset1, dataset2) ==
  {i \in 1..Len(correlations) :
     /\ correlations[i].sharedColumns = <<"time">>
     /\ correlations[i].dataset1 = dataset1.name
     /\ correlations[i].dataset2 = dataset2.name}

\* C7: a pair of datasets with fewer than 3 aligned date pairs gets no result
\* from the time-aligned strategy in what findCorrelations returns.
C7_NoTimeResultBelowThreePairs ==
  returned # NoResult =>
    \A i, j \in 1..Len(args.datasets) :
      (i < j /\ AlignedPairs(args.datasets[i], args.datasets[j]) < 3) =>
        /\ AnalyzeTimeBasedCorrelation(args.datasets[i], args.datasets[j]) = Null
        /\ TimeResults(returned.correlations, args.datasets[i], args.datasets[j]) = {}

\* two aligned pairs with different values, and the other strategies did report
C7_Witness ==
  /\ returned # NoResult
  /\ AlignedPairs(args.datasets[1], args.datasets[2]) = 2
  /\ LET series2 == SeriesOf(args.datasets[2])
     IN  Len(series2) = 2 /\ series2[1].value # series2[2].value
  /\ Len(returned.correlations) = 2

-----------------------------------------------------------------------------
(* Claims about the extraction of metrics *)

\* the occurrences of '<number> <unit>' in a text whose unit maps to the name
OccurrencesOf(text, name) ==
  SelectSeq(MetricMatches(text, 1), LAMBDA match :
    LET unit == ToLowerCase(match.word)
    IN  unit \in DOMAIN UnitMap /\ UnitMap[unit] = name)

CanonicalNames == {UnitMap[unit] : unit \in DOMAIN UnitMap}

\* C9: for a text with occurrences of '<number> <unit>' whose unit maps to the
\* canonical name M, the metric M is the number of the last such occurrence.
C9_LastOccurrenceWins ==
  returned # NoResult =>
    \A name \in CanonicalNames :
      LET occurrences == OccurrencesOf(args.text, name)
      IN  Len(occurrences) > 0 =>
            /\ HasMetric(returned.metrics, name)
            /\ MetricValue(returned.metrics, name)
                 = ParseDecimal(occurrences[Len(occurrences)].numeral)

-----------------------------------------------------------------------------
(* Claims about processText on the rule-based path *)

\* the text has a word of the food or home lists, or names a food or home item
HasFoodOrHomeKeyword(text) ==
  LET lowerText == ToLowerCase(text)
  IN  \/ IncludesSome(lowerText, FoodWords) \/ IncludesSome(lowerText, HomeWords)
      \/ IncludesSome(lowerText, FoodItems) \/ IncludesSome(lowerText, HomeItems)

Contains(list, item) == \E i \in 1..Len(list) : list[i] = item

\* C10: a text that yields goals N > 0, mentions 'foot' and has no food or home
\* keyword gets domain sports, body part foot, the insight 'Scored N goals' and
\* the footwork recommendation; the example text yields goals 2, assists 2 and
\* miles 7 and no other metric.
C10_SportsEntry ==
  returned # NoResult =>
    LET metrics == returned.extractedData.metrics
    IN  /\ ( /\ MetricTruthy(metrics, "goals")
             /\ Includes(ToLowerCase(args.text), "foot")
             /\ ~HasFoodOrHomeKeyword(args.text) )
           => /\ returned.domain = "sports"
              /\ Contains(returned.extractedData.entities.body_parts, "foot")
              /\ Contains(returned.insights,
                          "Scored " \o FormatDecimal(MetricValue(metrics, "goals")) \o " goals")
              /\ Contains(returned.recommendations, FootworkRecommendation)
        /\ args.text = ExampleText =>
             metrics = << [name |-> "goals", value |-> ParseDecimal("2")],
                          [name |-> "assists", value |-> ParseDecimal("2")],
                          [name |-> "miles", value |-> ParseDecimal("7")] >>

-----------------------------------------------------------------------------
(* Claims about what the registry ingests *)

\* the cell is a number above 0, or a text parseFloat reads as one
PositiveCell(cell) == ~ParseFloat(cell).nan /\ ParseFloat(cell).v > 0

\* the metrics cell is the JSON text of an object with a numeric value above 0
PositiveMetricsCell(cell) ==
  /\ cell.t = "string" /\ JsonParses(cell.s)
  /\ \E i \in 1..Len(JsonParse(cell.s)) :
       JsonParse(cell.s)[i][2].t = "number" /\ JsonParse(cell.s)[i][2].v > 0

\* the row holds no value above 0 on any of the three paths
SkippedRow(row) ==
  \A col \in DOMAIN row : ~PositiveCell(row[col]) /\ ~PositiveMetricsCell(row[col])

\* the dataset without its skipped rows
WithoutSkippedRows(dataset) ==
  [dataset EXCEPT !.data = SelectSeq(dataset.data, LAMBDA row : ~SkippedRow(row))]

\* C11: every history entry of every aggregation has a value above 0, and so has
\* every min, whichever path recorded it; the rows whose values are all
\* non-numeric, NaN, zero or negative leave the registry as it was: processing a
\* dataset changes the registry as processing it without those rows does.
C11_OnlyPositiveValues ==
  /\ [](\A k \in DOMAIN registry :
          /\ registry[k].min > 0
          /\ \A i \in 1..Len(registry[k].history) : registry[k].history[i].value > 0)
  /\ [][\A r \in Runs :
          (pc[r] = "process" /\ idx'[r] = idx[r] + 1) =>
            registry' = ApplyCalls(registry,
                                   ProcessDataset(WithoutSkippedRows(allData[r][idx[r]])))]_vars

\* a run has processed the budget file, whose third row holds -5 in its number
\* column: the column's aggregation holds 10 and 25 and nothing else
C11_Witness ==
  /\ \E r \in Runs : idx[r] > 1 /\ allData[r][idx[r] - 1].name = "budget.csv"
  /\ "financial:Amount" \in DOMAIN registry
  /\ registry["financial:Amount"].count = 2
  /\ registry["financial:Amount"].total = 35
  /\ \E i \in 1..Len(BudgetFile.data) : SkippedRow(BudgetFile.data[i])

-----------------------------------------------------------------------------
(* Claims about the order of the correlations *)

\* C17: findCorrelations returns its results in descending order of the
\* magnitude of the coefficient: of two consecutive results the first has the
\* coefficient of greater or equal absolute value.
C17_SortedByMagnitude ==
  returned # NoResult =>
    \A i \in 1..(Len(returned.correlations) - 1) :
      FloatCmp(FloatAbs(returned.correlations[i].correlation),
               FloatAbs(returned.correlations[i + 1].correlation)) >= 0

-----------------------------------------------------------------------------
(* Claims about the effect of one recordMetric call *)

\* the aggregation the call found under the key, or the one it created
Before(reg, key, after) ==
  IF key \in DOMAIN reg THEN reg[key] ELSE NewAggregation(after.metric, after.lastUpdated)

\* C19: a recordMetric call changes the aggregation of one key and no other: its
\* count rises by 1, its total by the value, min and max absorb the value, and
\* one entry with the call's timestamp, value and source is appended to the
\* history, whose earlier entries stay as they were, an equal entry included;
\* no key leaves the registry and no count decreases.
C19_OneAggregationChanges ==
  [][ /\ DOMAIN registry \subseteq DOMAIN registry'
      /\ \A k \in DOMAIN registry : registry'[k].count >= registry[k].count
      /\ \E key \in DOMAIN registry' :
           LET new == registry'[key]
               old == Before(registry, key, new)
               entry == new.history[Len(new.history)]
           IN  /\ \A k \in DOMAIN registry' \ {key} :
                    k \in DOMAIN registry /\ registry'[k] = registry[k]
               /\ key = MetricKey("sports", new.metric)
               /\ new.count = old.count + 1
               /\ new.total = old.total + entry.value
               /\ new.min = Min2(old.min, entry.value)
               /\ new.max = Max2(old.max, entry.value)
               /\ new.history = Append(old.history, entry)
               /\ entry.date = new.lastUpdated
               /\ entry.value \in CallValues
               /\ entry.source \in CallSources ]_registry

\* two aggregations, one of them with the same entry twice
C19_Witness ==
  /\ Cardinality(DOMAIN registry) = 2
  /\ \E k \in DOMAIN registry :
       \E i, j \in 1..Len(registry[k].history) :
         i < j /\ registry[k].history[i] = registry[k].history[j]

-----------------------------------------------------------------------------
(* Claims about the trend *)

\* the trend of three values in exact arithmetic: the average of the last two
\* against the average of the first two plus or minus 10%
ExactTrend(recent) ==
  LET firstSum == ExactAdd(recent[1], recent[2])
      secondSum == ExactAdd(recent[2], recent[3])
      tenfold == ExactMul(FloatOf(10), secondSum)
  IN  IF FloatCmp(tenfold, ExactMul(FloatOf(11), firstSum)) > 0 THEN "increasing"
      ELSE IF FloatCmp(tenfold, ExactMul(FloatOf(9), firstSum)) < 0 THEN "decreasing"
      ELSE "stable"

\* C20: with 3 or more history entries the trend after recordMetric is that of
\* the three most recent values alone: increasing when the average of the last
\* two exceeds the average of the first two by more than 10%, decreasing when
\* it is more than 10% smaller, stable otherwise; the comparison is taken
\* either on the decimal values or on the numbers they are stored as.
C20_TrendOfLastThree ==
  returned # NoResult =>
    LET recent == SubSeq(args.values, Len(args.values) - 2, Len(args.values))
    IN  \/ returned.trend = TrendOf([i \in 1..3 |-> [value |-> recent[i]]])
        \/ returned.trend = ExactTrend(ParsedValues(recent))

-----------------------------------------------------------------------------
(* Claims about the recommendations of an analysis *)

\* the strings the list is built from, in the order the claim gives: the
\* recommendations of the high-priority insights, those of the cross-dataset
\* insights with a correlation above 0.5, the three domain strings
Candidates(insights, crossDatasetInsights) ==
  LET Has(i) == insights[i].priority = "high" /\ insights[i].recommendation # Undefined
      highs == {i \in 1..Len(insights) : Has(i)}
      above == {i \in 1..Len(crossDatasetInsights) :
                  FloatCmp(crossDatasetInsights[i].correlation, RecommendingCorrelation) > 0}
      types == {insights[i].type : i \in 1..Len(insights)}
  IN  SeqConcat([i \in 1..Len(insights) |->
                   IF i \in highs THEN <<insights[i].recommendation.s>> ELSE << >>])
        \o SeqConcat([i \in 1..Len(crossDatasetInsights) |->
                        IF i \in above THEN <<crossDatasetInsights[i].recommendation>>
                        ELSE << >>])
        \o (IF "financial" \in types THEN <<FinancialRecommendation>> ELSE << >>)
        \o (IF "sports" \in types THEN <<SportsRecommendation>> ELSE << >>)
        \o (IF "health" \in types THEN <<HealthRecommendation>> ELSE << >>)

\* where the string first stands in the list
FirstAt(list, s) == SetMin({i \in 1..Len(list) : list[i] = s})

\* C18: the recommendations are at most 5, no two of them equal, every one a
\* candidate, in the order of the candidates' first occurrences; a candidate
\* is left out only when 5 candidates that come before it are in the list.
C18_FirstFiveDistinct ==
  returned # NoResult =>
    LET recs == returned.recommendations
        Holds(candidates) ==
          /\ Len(recs) <= 5
          /\ \A i, j \in 1..Len(recs) : i < j => recs[i] # recs[j]
          /\ Elements(recs) \subseteq Elements(candidates)
          /\ \A i, j \in 1..Len(recs) :
               i < j => FirstAt(candidates, recs[i]) < FirstAt(candidates, recs[j])
          /\ \A s \in Elements(candidates) \ Elements(recs) :
               /\ Len(recs) = 5
               /\ \A i \in 1..5 : FirstAt(candidates, recs[i]) < FirstAt(candidates, s)
    IN  \A candidates \in {Candidates(args.insights, args.crossDatasetInsights)} :
          Holds(candidates)

\* five recommendations returned from candidates that held an equal pair among
\* their first five and more than five different strings
C18_Witness ==
  /\ returned # NoResult
  /\ Len(returned.recommendations) = 5
  /\ LET candidates == Candidates(args.insights, args.crossDatasetInsights)
     IN  /\ Cardinality(Elements(candidates)) > 5
         /\ \E i, j \in 1..5 : i < j /\ candidates[i] = candidates[j]

-----------------------------------------------------------------------------
(* Claims about the defaults of an extraction *)

\* C16: processText raises for no text, and for the empty text the extracted
\* data has no metric, sentiment 'neutral' and confidence 0.
C16_EmptyTextDefaults ==
  (returned # NoResult /\ args.text = "") =>
    /\ returned.extractedData.metrics = << >>
    /\ returned.extractedData.sentiment = "neutral"
    /\ returned.extractedData.confidence = 0

-----------------------------------------------------------------------------
(* Claims about an analysis without data *)

\* no file of the store has a row
NoRows == \A i \in 1..Len(store) : Len(store[i].data) = 0

\* C14: when no dataset of the store has a row, analyzeAllData returns the empty
\* result (0 datasets, 0 records, no insights, no cross-dataset insights, no
\* charts, the three onboarding recommendations) and has started none of the
\* stages.
C14_NoDataShortCircuits ==
  (returned # NoResult /\ NoRows) =>
    /\ returned.stages = << >>
    /\ returned.value.summary.totalDatasets = 0
    /\ returned.value.summary.totalRecords = 0
    /\ returned.value.insights = << >>
    /\ returned.value.crossDatasetInsights = << >>
    /\ returned.value.charts = << >>
    /\ returned.value.recommendations =
         << "Upload your first dataset to start getting insights",
            "Try uploading different types of data to discover correlations",
            "Use the text input to quickly add data points" >>

\* an analysis of a store that holds one file, without rows, has returned
C14_Witness ==
  /\ Len(store) = 1 /\ NoRows
  /\ args.getAllFiles = "resolves" /\ args.unreadable = {}
  /\ returned # NoResult
  /\ returned.value = GetEmptyResult

-----------------------------------------------------------------------------
(* Claims about the failures of a call *)

\* getAllFiles rejects, or getFileData throws for a file
StoreUnavailable == args.getAllFiles = "rejects" \/ args.unreadable # {}

\* C13: when the store is unavailable while the list of the datasets or the rows
\* of a dataset are fetched, analyzeAllData hands an error to its caller: it
\* returns neither the empty result nor a result computed without the dataset.
C13_StoreFailureSurfaced ==
  (returned # NoResult /\ StoreUnavailable) => returned.value = Thrown

\* C12: analyzeAllData, buildMetrics and processText return a result object on
\* every call, whatever fails in the fetch, in a stage or in the external
\* services: no call ends in an exception.
C12_EntryPointsReturn ==
  /\ (args.entry = "analyzeAllData" /\ returned # NoResult) =>
       /\ returned.value # Thrown
       /\ DOMAIN returned.value = DOMAIN GetEmptyResult
  /\ (args.entry = "buildMetrics" /\ pc[1] = "done") =>
       DOMAIN result[1] = DOMAIN ErrorResult
  /\ (args.entry = "processText" /\ returned # NoResult) =>
       DOMAIN returned =
         {"originalText", "extractedData", "domain", "insights", "recommendations"}

\* an analysis whose classification threw has returned the empty result
C12_Witness ==
  /\ args.entry = "analyzeAllData"
  /\ returned # NoResult
  /\ returned.stages = <<"classification">>
  /\ returned.value = GetEmptyResult

-----------------------------------------------------------------------------
(* Claims about a text-generation backend that is down *)

-----------------------------------------------------------------------------
(* Claims about the double ingestion of tabular values *)

\* the canonical metric names probed for a pipeline domain
CanonicalMetricNames(domain) ==
  IF domain = "sports" THEN SportsMetrics
  ELSE IF domain = "financial" THEN FinancialMetrics
  ELSE IF domain = "health" THEN HealthMetrics
  ELSE << >>

\* the values a row's calls record under a metric of a domain, in call order
ValuesUnder(calls, domain, metric) ==
  SeqConcat([i \in 1..Len(calls) |->
    IF calls[i].metric = metric /\ calls[i].domain = domain
    THEN <<calls[i].value>> ELSE << >>])

\* the column extractNumericValue reads for a canonical name in a row: the column
\* of that very name when the row holds a number there, otherwise the first
\* column, in column order, whose lowercased name contains the name
ReadColumn(row, dataset, name) ==
  IF name \in DOMAIN row /\ ~ParseFloat(row[name]).nan THEN name
  ELSE dataset.columns[
         CHOOSE i \in 1..Len(dataset.columns) :
           /\ Includes(ToLowerCase(dataset.columns[i]), name)
           /\ \A j \in 1..(i - 1) : ~Includes(ToLowerCase(dataset.columns[j]), name)]

\* the number columns of the dataset paired with the canonical names of its
\* domain that their names equal or contain
NamedColumns(dataset) ==
  { p \in { <<dataset.columns[i], CanonicalMetricNames(PipelineDetectDomain(dataset))[k]>> :
              i \in 1..Len(dataset.columns),
              k \in 1..Len(CanonicalMetricNames(PipelineDetectDomain(dataset))) } :
      /\ dataset.columnTypes[p[1]] = "number"
      /\ Includes(ToLowerCase(p[1]), p[2]) }

\* what the row's calls record for a positive value v of column col named after
\* the canonical name: once under each name, or twice under the one name
TwiceIngested(calls, domain, col, name, v) ==
  IF col = name THEN ValuesUnder(calls, domain, name) = <<v, v>>
  ELSE ValuesUnder(calls, domain, col) = <<v>> /\ ValuesUnder(calls, domain, name) = <<v>>

\* the aggregation of a key holds what the calls of all rows recorded under it
AggregatesCalls(rows, domain, metric) ==
  LET values == SeqConcat([r \in 1..Len(rows) |-> ValuesUnder(rows[r], domain, metric)])
  IN  values # << >> =>
        /\ MetricKey(domain, metric) \in DOMAIN registry
        /\ registry[MetricKey(domain, metric)].count = Len(values)
        /\ registry[MetricKey(domain, metric)].total =
             SumOver(values, 1..Len(values))

\* C21 as stated: in a tabular dataset of pipeline domain sports, financial or
\* health, every positive row value of a number column whose name equals or
\* contains a canonical metric name of the domain is recorded twice for that row,
\* once under the column name and once under the canonical name; when the two
\* names are equal the one aggregation receives the value twice per row.
C21_IngestedTwice ==
  returned # NoResult =>
    \A p \in NamedColumns(args), r \in 1..Len(args.data) :
      PositiveCell(args.data[r][p[1]]) =>
        /\ TwiceIngested(returned.rows[r], PipelineDetectDomain(args), p[1], p[2],
                         ParseFloat(args.data[r][p[1]]).v)
        /\ AggregatesCalls(returned.rows, PipelineDetectDomain(args), p[2])

\* C21 amended: the same for the column that extractNumericValue reads for the
\* canonical name in that row; a positive value of any other number column
\* is recorded once for that row under its column name.
C21_IngestedTwiceWhenRead ==
  returned # NoResult =>
    \A p \in NamedColumns(args), r \in 1..Len(args.data) :
      PositiveCell(args.data[r][p[1]]) =>
        /\ IF p[1] = ReadColumn(args.data[r], args, p[2])
           THEN TwiceIngested(returned.rows[r], PipelineDetectDomain(args), p[1], p[2],
                              ParseFloat(args.data[r][p[1]]).v)
           ELSE ValuesUnder(returned.rows[r], PipelineDetectDomain(args), p[1]) =
                  <<ParseFloat(args.data[r][p[1]]).v>>
        /\ AggregatesCalls(returned.rows, PipelineDetectDomain(args), p[1])
        /\ AggregatesCalls(returned.rows, PipelineDetectDomain(args), p[2])

\* a processed dataset with the columns home_goals and goals: in its first row
\* goals holds a text and home_goals is read for the canonical name, in its
\* third row goals holds a number and is recorded twice under the one key
C21_Witness ==
  /\ returned # NoResult
  /\ args.columns = <<"home_goals", "goals">>
  /\ PositiveCell(args.data[1]["home_goals"])
  /\ ReadColumn(args.data[1], args, "goals") = "home_goals"
  /\ ValuesUnder(returned.rows[1], "sports", "goals") = <<2>>
  /\ PositiveCell(args.data[3]["goals"])
  /\ ValuesUnder(returned.rows[3], "sports", "goals") = <<5, 5>>
  /\ registry["sports:goals"].count = 3
  /\ registry["sports:goals"].total = 12

-----------------------------------------------------------------------------
(* Claims about the pairs findCorrelations examines *)

\* the non-null results of the three strategies on every pair of positions i < j
\* of the list, each with its pair and its strategy
StrategyResults(datasets) ==
  { t \in
      UNION { { <<p[1], p[2], 1,
                  IF datasets[p[1]].domain = datasets[p[2]].domain
                  THEN AnalyzeSameDomainCorrelation(datasets[p[1]], datasets[p[2]])
                  ELSE Null>>,
                <<p[1], p[2], 2, AnalyzeTimeBasedCorrelation(datasets[p[1]], datasets[p[2]])>>,
                <<p[1], p[2], 3, AnalyzeSharedColumnCorrelation(datasets[p[1]], datasets[p[2]])>> } :
              p \in { q \in (1..Len(datasets)) \X (1..Len(datasets)) : q[1] < q[2] } } :
      t[4] # Null }

\* the list holds every result of the set as often as the set does, and nothing else
SameCollection(list, results) ==
  /\ Len(list) = Cardinality(results)
  /\ \A t \in results :
       Cardinality({k \in 1..Len(list) : list[k] = t[4]}) =
         Cardinality({u \in results : u[4] = t[4]})

\* C22: findCorrelations examines every pair of positions i < j of its list once
\* and runs the three strategies on it, the same-domain strategy when the two
\* domains are equal; what it returns is the collection of the non-null results,
\* each as often as the strategies produced it, so a pair contributes 0 to 3
\* results.
C22_EveryPairEveryStrategy ==
  returned # NoResult =>
    \A results \in {StrategyResults(args.datasets)} :
      SameCollection(returned.correlations, results)

\* a call on three datasets in which one pair has three results, one pair has one
\* and one pair has none
C22_Witness ==
  /\ returned # NoResult
  /\ Len(args.datasets) = 3
  /\ Len(returned.correlations) = 4
  /\ \E results \in {StrategyResults(args.datasets)} :
       \E i, j, k \in 1..3 :
         /\ Cardinality({t \in results : t[1] = i /\ t[2] = j}) = 3
         /\ Cardinality({t \in results : t[1] = i /\ t[2] = k}) = 1
         /\ j < k /\ {t \in results : t[1] = j /\ t[2] = k} = {}

-----------------------------------------------------------------------------
(* Claims about the thresholds of the strategies *)

\* the magnitude of x is a number and at least `tenths` tenths
AtLeastTenths(x, tenths) == ~x.nan /\ FloatCmp(FloatAbs(x), Tenths(tenths)) >= 0

\* the result of analyzeTimeBasedCorrelation: its shared columns are ['time']
IsTimeResult(r) == r.sharedColumns = <<"time">>

\* the result of analyzeSharedColumnCorrelation: its insight reads '... correlate in ...'
IsSharedColumnResult(r) == Includes(r.insight, " correlate in ")

\* the result of analyzeSameDomainCorrelation: its insight reads '... correlation in ...'
IsSameDomainResult(r) == Includes(r.insight, " correlation in ")

\* the coefficients of the columns shared by the two datasets and typed number in both
CoefficientsOf(dataset1, dataset2) ==
  SharedCorrelations(dataset1, dataset2, FindSharedColumns(dataset1, dataset2))

\* C23: a time-aligned result is reported only with a coefficient of magnitude at
\* least 0.3, a shared-column result only with an average of magnitude at least
\* 0.2; the same-domain strategy has no threshold: two datasets of one domain get
\* a same-domain result, carrying the average, whenever a shared column typed
\* number in both produced a coefficient, and only then.
C23_Thresholds ==
  returned # NoResult =>
    /\ \A k \in 1..Len(returned.correlations) :
         /\ IsTimeResult(returned.correlations[k]) =>
              AtLeastTenths(returned.correlations[k].correlation, 3)
         /\ IsSharedColumnResult(returned.correlations[k]) =>
              AtLeastTenths(returned.correlations[k].correlation, 2)
    /\ \A p \in { q \in (1..Len(args.datasets)) \X (1..Len(args.datasets)) : q[1] < q[2] } :
         \A found \in {CoefficientsOf(args.datasets[p[1]], args.datasets[p[2]])} :
           (args.datasets[p[1]].domain = args.datasets[p[2]].domain /\ found # << >>)
             <=> \E k \in 1..Len(returned.correlations) :
                   /\ IsSameDomainResult(returned.correlations[k])
                   /\ returned.correlations[k].dataset1 = args.datasets[p[1]].name
                   /\ returned.correlations[k].dataset2 = args.datasets[p[2]].name
                   /\ returned.correlations[k].correlation = Average(found)

-----------------------------------------------------------------------------
(* DataPipeline: calculateCorrelation on two aggregations of the registry *)

PairValues == {1, 20}

\* recordMetric while no coefficient has been asked for
RecordForPair ==
  /\ returned = NoResult
  /\ TotalCount(registry) < MaxCalls
  /\ \E metric \in CallMetrics, value \in PairValues, domain \in CallDomains,
        source \in CallSources :
       registry' = RecordMetric(registry, metric, value, domain, 1, source)
  /\ UNCHANGED <<writer, store, pc, allData, idx, domainMetrics, crossDomain, result,
                 args, returned>>

\* calculateCorrelation(metric1, metric2) on two aggregations, and with the two
\* the other way round
CalculateCorrelationCall ==
  /\ returned = NoResult
  /\ \E key1 \in DOMAIN registry : \E key2 \in DOMAIN registry \ {key1} :
       /\ args' = [metric1 |-> registry[key1], metric2 |-> registry[key2]]
       /\ returned' = [correlation |-> CalculateCorrelation(registry[key1], registry[key2]),
                       swapped |-> CalculateCorrelation(registry[key2], registry[key1])]
  /\ UNCHANGED pipelineVars

InitMetricPair == InitRuns /\ NoCall /\ store = << >>

NextMetricPair == RecordForPair \/ CalculateCorrelationCall

SpecMetricPair == InitMetricPair /\ [][NextMetricPair]_vars

-----------------------------------------------------------------------------
(* Claims about the coefficient of two aggregations *)

\* the averages total / count of the two aggregations differ by less than 10
AveragesWithinTen(metric1, metric2) ==
  Abs(metric1.total * metric2.count - metric2.total * metric1.count)
    < 10 * metric1.count * metric2.count

\* `tenths` clamped to [-1, 1]
ClampTenths(tenths) == IF tenths > 10 THEN 10 ELSE IF tenths < -10 THEN -10 ELSE tenths

\* C24 as stated: the coefficient of two aggregations is 0.3 for equal trend
\* labels (0 otherwise) plus 0.2 for averages less than 10 apart (0 otherwise),
\* clamped to [-1, 1]; it is the same with the arguments exchanged and it is never
\* negative.
C24_BonusesOnly ==
  returned # NoResult =>
    /\ returned.correlation =
         ClampTenths((IF args.metric1.trend = args.metric2.trend THEN 3 ELSE 0)
                     + (IF AveragesWithinTen(args.metric1, args.metric2) THEN 2 ELSE 0))
    /\ returned.swapped = returned.correlation
    /\ returned.correlation >= 0

\* C24 amended: the coefficient is 0.3 for equal trend labels and -0.1 otherwise,
\* plus 0.2 for averages less than 10 apart (0 otherwise), clamped to [-1, 1]; it
\* is the same with the arguments exchanged and it is never below -0.1.
C24_BonusAndPenalty ==
  returned # NoResult =>
    /\ returned.correlation =
         ClampTenths((IF args.metric1.trend = args.metric2.trend THEN 3 ELSE -1)
                     + (IF AveragesWithinTen(args.metric1, args.metric2) THEN 2 ELSE 0))
    /\ returned.swapped = returned.correlation
    /\ returned.correlation >= -1

\* an increasing aggregation and a stable one with averages 41/3 and 1
C24_Witness ==
  /\ returned # NoResult
  /\ args.metric1.trend = "increasing"
  /\ args.metric2.trend = "stable"
  /\ args.metric1.average = <<41, 3>>
  /\ args.metric2.average = <<1, 1>>
  /\ returned.correlation = -1
  /\ returned.swapped = -1

-----------------------------------------------------------------------------
(* Claims about the confidence of the classifier *)

\* some column name holds a keyword of the domain
KeywordPresent(dataset, type) ==
  \E i \in 1..Len(dataset.columns) :
    CASE type = "financial" -> IsMoneyColumn(dataset.columns[i])
      [] type = "sports" -> IsSportsPerformanceColumn(dataset.columns[i])
      [] type = "health" -> IsHealthColumn(dataset.columns[i])
      [] type = "productivity" -> IsProductivityColumn(dataset.columns[i])
      [] OTHER -> FALSE

\* some column holds a sample value with the value pattern of the domain
ValuePatternPresent(dataset, type) ==
  \E i \in 1..Len(dataset.columns) :
    CASE type = "financial" -> HasMoneyValues(dataset.data, dataset.columns[i])
      [] type = "sports" -> HasSportsValues(dataset.data, dataset.columns[i])
      [] type = "health" -> HasHealthValues(dataset.data, dataset.columns[i])
      [] type = "productivity" -> HasProductivityValues(dataset.data, dataset.columns[i])
      [] OTHER -> FALSE

\* C25: the confidence of the classifier is 0.5, plus 0.3 if a column name holds a
\* keyword of the winning domain, plus 0.2 if a value has the value pattern of the
\* winning domain, at most 1.0; 'general' has confidence 0.5 exactly; every
\* confidence lies in [0.5, 1.0]; what the other domains' indicators are plays
\* no part.
C25_Confidence ==
  returned # NoResult =>
    /\ returned.type = "general" => returned.confidence = 5
    /\ returned.confidence >= 5 /\ returned.confidence <= 10
    /\ returned.confidence =
         Min2(10, 5 + (IF KeywordPresent(args, returned.type) THEN 3 ELSE 0)
                    + (IF ValuePatternPresent(args, returned.type) THEN 2 ELSE 0))

\* a financial dataset by its column name, with a sports value in the cell: the
\* confidence is 0.8 although the indicators hold 'performance'
C25_Witness ==
  /\ returned # NoResult
  /\ returned.type = "financial"
  /\ returned.confidence = 8
  /\ "performance" \in returned.indicators
  /\ "currency" \notin returned.indicators

-----------------------------------------------------------------------------
(* AnalyticsService: extractDomainFromNLPData on a stored NLP dataset *)

\* the domains and the confidences (in tenths) a stored first row holds; 0.0 is
\* the confidence of the fallback result of the text processor
StoredDomains == {Str("sports"), Str("financial"), Str("general"), Str("travel"), Undefined}
StoredConfidences == {Num(0), Num(5), Num(7), Num(10), Undefined}

NLPColumns == <<"domain", "confidence", "insights", "recommendations">>

NLPRow(domain, confidence, cell) ==
  [c \in {"domain", "confidence", "insights", "recommendations", "goals"} |->
     CASE c = "domain" -> domain
       [] c = "confidence" -> confidence
       [] c = "goals" -> cell
       [] OTHER -> Str("[]")]

\* the rows after the first
LaterRows == {NLPRow(Str("health"), Num(3), Num(2)), NLPRow(Undefined, Undefined, Str("x"))}

NLPDatasets ==
  { [columns |-> columns, data |-> data] :
      columns \in {NLPColumns, NLPColumns \o <<"goals">>},
      data \in {<< >>}
        \cup UNION { { <<NLPRow(domain, confidence, Num(1))>> \o later :
                         domain \in StoredDomains, confidence \in StoredConfidences,
                         later \in [1..(n - 1) -> LaterRows] }
                     : n \in 1..MaxRows } }

ExtractDomainFromNLPDataCall ==
  /\ returned = NoResult
  /\ IsNLPProcessedData(args)
  /\ returned' = ExtractDomainFromNLPData(args)
  /\ UNCHANGED <<pipelineVars, args>>

InitNLPDomain == InitRuns /\ store = << >> /\ args \in NLPDatasets /\ returned = NoResult

NextNLPDomain == ExtractDomainFromNLPDataCall

SpecNLPDomain == InitNLPDomain /\ [][NextNLPDomain]_vars

-----------------------------------------------------------------------------
(* Claims about the classification read from a stored NLP dataset *)

\* C26: for an NLP dataset with at least one row whose first row stores a domain
\* and a confidence in [0, 1], the classification has the stored domain as its
\* type and the stored confidence as its confidence; nothing else of the dataset
\* plays a part.
C26_TrustsFirstRow ==
  (/\ returned # NoResult
   /\ Len(args.data) >= 1
   /\ args.data[1].domain.t = "string"
   /\ args.data[1].confidence.t = "number"
   /\ args.data[1].confidence.v \in 0..10)
  => /\ returned.type = args.data[1].domain.s
     /\ returned.confidence = args.data[1].confidence

-----------------------------------------------------------------------------
(* NLPProcessor: analyzeSentiment on a text *)

SentimentPhrases == << "good", "Great", "bad", "worse", "a badge", "fine" >>

AnalyzeSentimentCall ==
  /\ returned = NoResult
  /\ returned' = [sentiment |-> AnalyzeSentiment(args.text)]
  /\ UNCHANGED <<pipelineVars, args>>

InitSentiment ==
  /\ InitRuns /\ store = << >>
  /\ args \in {[text |-> text] : text \in TextsOf(SentimentPhrases)}
  /\ returned = NoResult

NextSentiment == AnalyzeSentimentCall

SpecSentiment == InitSentiment /\ [][NextSentiment]_vars

-----------------------------------------------------------------------------
(* Claims about the sentiment of a text *)

\* how often words of the list occur in the lowercased text
OccurrenceCount(text, words) ==
  SumOver([i \in 1..Len(words) |-> Cardinality(PlacesOf(ToLowerCase(text), words[i]))],
          1..Len(words))

\* how many words of the list occur in the lowercased text
OccurringCount(text, words) ==
  Cardinality({i \in 1..Len(words) : PlacesOf(ToLowerCase(text), words[i]) # {}})

\* C27 as stated: the sentiment compares the number of occurrences of positive
\* words in the text with the number of occurrences of negative words: positive
\* iff the first is greater, negative iff the second is greater, neutral on a tie.
C27_ByOccurrences ==
  returned # NoResult =>
    /\ returned.sentiment = "positive"
         <=> OccurrenceCount(args.text, PositiveWords) > OccurrenceCount(args.text, NegativeWords)
    /\ returned.sentiment = "negative"
         <=> OccurrenceCount(args.text, NegativeWords) > OccurrenceCount(args.text, PositiveWords)
    /\ returned.sentiment = "neutral"
         <=> OccurrenceCount(args.text, NegativeWords) = OccurrenceCount(args.text, PositiveWords)

\* C27 amended: the sentiment compares the number of positive words that occur in
\* the text at least once with the number of negative words that occur at least
\* once: positive iff the first is greater, negative iff the second is greater,
\* neutral on a tie.
C27_ByOccurringWords ==
  returned # NoResult =>
    /\ returned.sentiment = "positive"
         <=> OccurringCount(args.text, PositiveWords) > OccurringCount(args.text, NegativeWords)
    /\ returned.sentiment = "negative"
         <=> OccurringCount(args.text, NegativeWords) > OccurringCount(args.text, PositiveWords)
    /\ returned.sentiment = "neutral"
         <=> OccurringCount(args.text, NegativeWords) = OccurringCount(args.text, PositiveWords)

\* 'good' twice and 'bad' once: one positive word, one negative word, neutral
C27_Witness ==
  /\ returned # NoResult
  /\ OccurrenceCount(args.text, PositiveWords) = 2
  /\ OccurringCount(args.text, PositiveWords) = 1
  /\ OccurringCount(args.text, NegativeWords) = 1
  /\ returned.sentiment = "neutral"

-----------------------------------------------------------------------------
(* The two domain detections on one tabular dataset *)

\* DataPipeline.detectDomain and DomainAnalyzer.detectDomain on the same dataset
DetectBothCall ==
  /\ returned = NoResult
  /\ returned' = [pipeline |-> PipelineDetectDomain(args),
                  classifier |-> DetectDomain(args.data, args.columns).type]
  /\ UNCHANGED <<pipelineVars, args>>

InitDomains == InitRuns /\ store = << >> /\ args \in Datasets /\ returned = NoResult

NextDomains == DetectBothCall

SpecDomains == InitDomains /\ [][NextDomains]_vars

-----------------------------------------------------------------------------
(* Claims about the agreement of the two domain detections *)

\* C28: the domain under which DataPipeline aggregates a tabular dataset is the
\* domain DomainAnalyzer assigns to the dataset, whatever its column names.
C28_SameDomain ==
  returned # NoResult => returned.pipeline = returned.classifier

-----------------------------------------------------------------------------
(* DataPipeline: analyzeCrossDomain on a registry filled by recordMetric *)

CrossDomains == {"sports", "health"}

\* recordMetric while the analysis has not run
RecordForCross ==
  /\ returned = NoResult
  /\ TotalCount(registry) < MaxCalls
  /\ \E metric \in CallMetrics, value \in PairValues, domain \in CrossDomains,
        source \in CallSources :
       registry' = RecordMetric(registry, metric, value, domain, 1, source)
  /\ UNCHANGED <<writer, store, pc, allData, idx, domainMetrics, crossDomain, result,
                 args, returned>>

\* analyzeCrossDomain(buildDomainMetrics()) on the registry as it is
AnalyzeCrossDomainCall ==
  /\ returned = NoResult
  /\ returned' = AnalyzeCrossDomain(BuildDomainMetrics(registry), registry)
  /\ UNCHANGED <<pipelineVars, args>>

InitCross == InitRuns /\ NoCall /\ store = << >>

NextCross == RecordForCross \/ AnalyzeCrossDomainCall

SpecCross == InitCross /\ [][NextCross]_vars

-----------------------------------------------------------------------------
(* Claims about the correlations of the cross-domain pass *)

-----------------------------------------------------------------------------
(* Claims about the confidence of a correlation *)

\* C30: every result findCorrelations returns has a confidence that is a number
\* between 0 and 1, whichever strategy produced it and whatever the sign of its
\* coefficient.
C30_ConfidenceInUnitInterval ==
  returned # NoResult =>
    \A k \in 1..Len(returned.correlations) :
      /\ ~returned.correlations[k].confidence.nan
      /\ FloatCmp(returned.correlations[k].confidence, FloatOf(0)) >= 0
      /\ FloatCmp(returned.correlations[k].confidence, FloatOf(1)) <= 0

====
